---- MODULE Spec2Model ----
(***************************************************************************)
(* Disaster-response aggregation API: the official-updates pipeline        *)
(* (fetch, filter, search, rank), the social-report pipeline (provider     *)
(* chain, priority classification, relevance scoring) and the caching      *)
(* request handlers built on them.                                         *)
(*                                                                         *)
(* JavaScript strings that the code lower-cases, splits, trims, searches   *)
(* or concatenates are sequences of one-character strings, so that these   *)
(* operations are computed character by character.  Values that the code   *)
(* only compares with === (source names, priority tiers, handler names)    *)
(* are plain strings.  Timestamps are integer minutes relative to the      *)
(* moment the modules were loaded.                                         *)
(***************************************************************************)
EXTENDS Integers, Sequences, FiniteSets, TLC

(***************************************************************************)
(* JavaScript values and built-ins used by the code                        *)
(***************************************************************************)

\* undefined (a query parameter that was not sent) and null: one-element
\* sequences that no character sequence equals.
Absent == <<"undefined">>

Null == <<"null">>

\* JavaScript truthiness of a string-or-missing value: undefined, null and
\* the empty string are falsy.
Truthy(v) == v # Absent /\ v # Null /\ v # <<>>

UpperChars ==
  <<"A","B","C","D","E","F","G","H","I","J","K","L","M","N","O","P","Q","R","S","T","U","V",
    "W","X","Y","Z">>

LowerChars ==
  <<"a","b","c","d","e","f","g","h","i","j","k","l","m","n","o","p","q","r","s","t","u","v",
    "w","x","y","z">>

DigitChars == <<"0","1","2","3","4","5","6","7","8","9">>

LowerChar(c) ==
  IF \E i \in 1..Len(UpperChars) : UpperChars[i] = c
  THEN LowerChars[CHOOSE i \in 1..Len(UpperChars) : UpperChars[i] = c]
  ELSE c

\* String.prototype.toLowerCase
toLowerCase(s) == [i \in 1..Len(s) |-> LowerChar(s[i])]

\* String.prototype.includes: needle occurs in hay as a contiguous run.
includes(hay, needle) ==
  \E i \in 0..(Len(hay) - Len(needle)) :
    \A j \in 1..Len(needle) : hay[i + j] = needle[j]

\* String.prototype.trim (the inputs hold no whitespace other than blanks).
RECURSIVE trim(_)
trim(s) ==
  IF s = <<>> THEN s
  ELSE IF Head(s) = " " THEN trim(Tail(s))
  ELSE IF s[Len(s)] = " " THEN trim(SubSeq(s, 1, Len(s) - 1))
  ELSE s

\* String.prototype.split(','): "a,b" -> ["a","b"], "a," -> ["a",""], "" -> [""].
RECURSIVE split(_)
split(s) ==
  IF \E i \in 1..Len(s) : s[i] = ","
  THEN LET i == CHOOSE k \in 1..Len(s) : s[k] = "," /\ \A m \in 1..(k - 1) : s[m] # ","
       IN  <<SubSeq(s, 1, i - 1)>> \o split(SubSeq(s, i + 1, Len(s)))
  ELSE <<s>>

\* Array.prototype.map(f) for the two maps the code applies to term lists.
mapTrim(terms) == [i \in 1..Len(terms) |-> trim(terms[i])]

DigitValue(c) == (CHOOSE i \in 1..10 : DigitChars[i] = c) - 1

IsDigit(c) == \E i \in 1..10 : DigitChars[i] = c

\* Numbers: [nan |-> TRUE] is NaN, [nan |-> FALSE, n |-> k] the integer k.
\* The numeric query parameter (limit) is a digit string when sent; its
\* numeric default is kept as the same digits, which parseInt, Number and
\* truthiness treat like the number.
RECURSIVE parseDigits(_, _)
parseDigits(s, acc) ==
  IF s = <<>> \/ ~IsDigit(Head(s)) THEN acc
  ELSE parseDigits(Tail(s), 10 * acc + DigitValue(Head(s)))

\* parseInt: the value of the leading decimal digits, NaN when there are none
\* (the inputs carry no sign and no leading blanks).
parseInt(v) ==
  IF v = <<>> \/ ~IsDigit(Head(v)) THEN [nan |-> TRUE, n |-> 0]
  ELSE [nan |-> FALSE, n |-> parseDigits(v, 0)]

\* The numeric coercion of v > 0: the whole string must be digits ("" is 0).
toNumber(v) ==
  IF \A i \in 1..Len(v) : IsDigit(v[i]) THEN [nan |-> FALSE, n |-> parseDigits(v, 0)]
  ELSE [nan |-> TRUE, n |-> 0]

\* Array.prototype.slice(0, end) for end >= 0; slice(0, NaN) is slice(0, 0).
slice(arr, end) ==
  IF end.nan THEN <<>>
  ELSE SubSeq(arr, 1, IF end.n < Len(arr) THEN end.n ELSE Len(arr))

(***************************************************************************)
(* String literals of the source                                           *)
(***************************************************************************)
s_all == <<"a","l","l">>
s_fema == <<"f","e","m","a">>
s_redcross == <<"r","e","d","c","r","o","s","s">>
s_nyc == <<"n","y","c">>
s_weather == <<"w","e","a","t","h","e","r">>
s_general == <<"g","e","n","e","r","a","l">>
s_none == <<"n","o","n","e">>
s_high == <<"h","i","g","h">>
s_medium == <<"m","e","d","i","u","m">>
s_low == <<"l","o","w">>
s_shelter == <<"s","h","e","l","t","e","r">>
s_supplies == <<"s","u","p","p","l","i","e","s">>
s_volunteer == <<"v","o","l","u","n","t","e","e","r">>
s_food == <<"f","o","o","d">>
s_urgent == <<"u","r","g","e","n","t">>
s_sos == <<"s","o","s">>
s_emergency == <<"e","m","e","r","g","e","n","c","y">>
s_evacuate == <<"e","v","a","c","u","a","t","e">>
s_need == <<"n","e","e","d">>
s_help == <<"h","e","l","p">>
s_stranded == <<"s","t","r","a","n","d","e","d">>
s_trapped == <<"t","r","a","p","p","e","d">>
s_offering == <<"o","f","f","e","r","i","n","g">>
s_donate == <<"d","o","n","a","t","e">>
s_social_media_ == <<"s","o","c","i","a","l","_","m","e","d","i","a","_">>
s_official_updates_ == <<"o","f","f","i","c","i","a","l","_","u","p","d","a","t","e","s","_">>
s_updates_by_category_ ==
  <<"u","p","d","a","t","e","s","_","b","y","_","c","a","t","e","g","o","r","y","_">>
s_search_updates_ == <<"s","e","a","r","c","h","_","u","p","d","a","t","e","s","_">>
location1 == <<"L","o","w","e","r"," ","M","a","n","h","a","t","t","a","n",","," ","N","Y","C">>
location2 ==
  <<"B","r","o","o","k","l","y","n"," ","H","e","i","g","h","t","s",","," ","N","Y","C">>
location3 == <<"4","2","n","d"," ","S","t","r","e","e","t",","," ","N","Y","C">>
location4 == <<"D","o","w","n","t","o","w","n">>
location5 == <<"R","e","s","i","d","e","n","t","i","a","l"," ","D","i","s","t","r","i","c","t">>
location6 == <<"C","o","m","m","u","n","i","t","y"," ","C","e","n","t","e","r">>
h_floodrelief == <<"#","f","l","o","o","d","r","e","l","i","e","f">>
h_emergency == <<"#","e","m","e","r","g","e","n","c","y">>
h_disasterhelp == <<"#","d","i","s","a","s","t","e","r","h","e","l","p">>
h_shelter == <<"#","s","h","e","l","t","e","r">>
h_emergencyhelp == <<"#","e","m","e","r","g","e","n","c","y","h","e","l","p">>
h_medical == <<"#","m","e","d","i","c","a","l">>
h_earthquake == <<"#","e","a","r","t","h","q","u","a","k","e">>
h_help == <<"#","h","e","l","p">>
h_fire == <<"#","f","i","r","e">>
h_evacuate == <<"#","e","v","a","c","u","a","t","e">>
h_donate == <<"#","d","o","n","a","t","e">>
title1 ==
  <<"E","m","e","r","g","e","n","c","y"," ","S","h","e","l","t","e","r"," ","L","o","c","a","t",
    "i","o","n","s"," ","U","p","d","a","t","e","d">>
content1 ==
  <<"N","e","w"," ","e","m","e","r","g","e","n","c","y"," ","s","h","e","l","t","e","r","s"," ",
    "h","a","v","e"," ","b","e","e","n"," ","o","p","e","n","e","d"," ","i","n"," ","M","a","n",
    "h","a","t","t","a","n"," ","a","n","d"," ","B","r","o","o","k","l","y","n","."," ","C","a",
    "p","a","c","i","t","y"," ","f","o","r"," ","5","0","0","+"," ","p","e","o","p","l","e"," ",
    "a","v","a","i","l","a","b","l","e",".">>
title2 ==
  <<"W","a","t","e","r"," ","D","i","s","t","r","i","b","u","t","i","o","n"," ","P","o","i","n",
    "t","s"," ","A","c","t","i","v","e">>
content2 ==
  <<"W","a","t","e","r"," ","d","i","s","t","r","i","b","u","t","i","o","n"," ","i","s"," ","n",
    "o","w"," ","a","c","t","i","v","e"," ","a","t"," ","C","e","n","t","r","a","l"," ","P","a",
    "r","k"," ","a","n","d"," ","P","r","o","s","p","e","c","t"," ","P","a","r","k"," ","l","o",
    "c","a","t","i","o","n","s"," ","f","r","o","m"," ","8"," ","A","M"," ","t","o"," ","6"," ",
    "P","M",".">>
title3 ==
  <<"V","o","l","u","n","t","e","e","r"," ","R","e","g","i","s","t","r","a","t","i","o","n"," ",
    "O","p","e","n">>
content3 ==
  <<"R","e","d"," ","C","r","o","s","s"," ","i","s"," ","a","c","c","e","p","t","i","n","g"," ",
    "v","o","l","u","n","t","e","e","r"," ","r","e","g","i","s","t","r","a","t","i","o","n","s",
    " ","f","o","r"," ","d","i","s","a","s","t","e","r"," ","r","e","l","i","e","f"," ","e","f",
    "f","o","r","t","s","."," ","T","r","a","i","n","i","n","g"," ","p","r","o","v","i","d","e",
    "d",".">>
title4 ==
  <<"S","e","v","e","r","e"," ","W","e","a","t","h","e","r"," ","A","l","e","r","t"," ","E","x",
    "t","e","n","d","e","d">>
content4 ==
  <<"S","e","v","e","r","e"," ","w","e","a","t","h","e","r"," ","c","o","n","d","i","t","i","o",
    "n","s"," ","e","x","p","e","c","t","e","d"," ","t","o"," ","c","o","n","t","i","n","u","e",
    " ","t","h","r","o","u","g","h"," ","t","o","m","o","r","r","o","w"," ","e","v","e","n","i",
    "n","g","."," ","S","t","a","y"," ","i","n","d","o","o","r","s",".">>
title5 ==
  <<"M","o","b","i","l","e"," ","F","o","o","d"," ","U","n","i","t","s"," ","D","e","p","l","o",
    "y","e","d">>
content5 ==
  <<"M","o","b","i","l","e"," ","f","o","o","d"," ","u","n","i","t","s"," ","a","r","e"," ","s",
    "e","r","v","i","n","g"," ","h","o","t"," ","m","e","a","l","s"," ","i","n"," ","a","f","f",
    "e","c","t","e","d"," ","a","r","e","a","s","."," ","C","h","e","c","k"," ","l","o","c","a",
    "t","i","o","n","s"," ","o","n"," ","o","u","r"," ","w","e","b","s","i","t","e",".">>
post1 ==
  <<"#","f","l","o","o","d","r","e","l","i","e","f"," ","N","e","e","d"," ","f","o","o","d"," ",
    "a","n","d"," ","w","a","t","e","r"," ","i","n"," ","L","o","w","e","r"," ","M","a","n","h",
    "a","t","t","a","n","."," ","F","a","m","i","l","i","e","s"," ","s","t","r","a","n","d","e",
    "d","!">>
post2 ==
  <<"O","f","f","e","r","i","n","g"," ","s","h","e","l","t","e","r"," ","i","n"," ","B","r","o",
    "o","k","l","y","n"," ","H","e","i","g","h","t","s"," ","f","o","r"," ","f","l","o","o","d",
    " ","v","i","c","t","i","m","s","."," ","C","o","n","t","a","c","t"," ","m","e","!"," ","#",
    "d","i","s","a","s","t","e","r","h","e","l","p">>
post3 ==
  <<"U","R","G","E","N","T",":"," ","M","e","d","i","c","a","l"," ","s","u","p","p","l","i","e",
    "s"," ","n","e","e","d","e","d"," ","a","t"," ","e","v","a","c","u","a","t","i","o","n"," ",
    "c","e","n","t","e","r"," ","o","n"," ","4","2","n","d"," ","S","t","r","e","e","t"," ","#",
    "e","m","e","r","g","e","n","c","y","h","e","l","p">>
post4 ==
  <<"E","a","r","t","h","q","u","a","k","e"," ","f","e","l","t"," ","i","n"," ","d","o","w","n",
    "t","o","w","n"," ","a","r","e","a","."," ","B","u","i","l","d","i","n","g","s"," ","s","h",
    "a","k","i","n","g","!"," ","#","e","a","r","t","h","q","u","a","k","e"," ","#","h","e","l",
    "p">>
post5 ==
  <<"F","i","r","e"," ","s","p","r","e","a","d","i","n","g"," ","n","e","a","r"," ","r","e","s",
    "i","d","e","n","t","i","a","l"," ","a","r","e","a","."," ","E","v","a","c","u","a","t","i",
    "o","n","s"," ","n","e","e","d","e","d","!"," ","#","f","i","r","e"," ","#","e","v","a","c",
    "u","a","t","e">>
post6 ==
  <<"H","a","v","e"," ","e","x","t","r","a"," ","b","l","a","n","k","e","t","s"," ","a","n","d",
    " ","w","a","r","m"," ","c","l","o","t","h","e","s"," ","f","o","r"," ","d","i","s","a","s",
    "t","e","r"," ","v","i","c","t","i","m","s"," ","#","d","o","n","a","t","e"," ","#","h","e",
    "l","p">>
s_d1 == <<"d","1">>
s_water == <<"w","a","t","e","r">>
s_fire == <<"f","i","r","e">>
s_limit20 == <<"2","0">>
s_limit30 == <<"3","0">>
s_limit50 == <<"5","0">>
s_1 == <<"1">>
s_2 == <<"2">>
s_0 == <<"0">>
s_fema_nyc == <<"f","e","m","a",","," ","n","y","c">>
s_unknown == <<"u","n","k","n","o","w","n">>
s_SHELTER == <<"S","H","E","L","T","E","R">>
s_water_volunteer == <<"w","a","t","e","r",",","v","o","l","u","n","t","e","e","r">>
s_Shelter == <<"S","h","e","l","t","e","r">>
s_HIGH == <<"H","I","G","H">>
s_Medium == <<"M","e","d","i","u","m">>
s_nope == <<"n","o","p","e">>
title6 ==
  <<"S","h","e","l","t","e","r"," ","W","a","t","e","r"," ","S","u","p","p","l","y"," ","N","o",
    "t","i","c","e">>
content6 ==
  <<"V","o","l","u","n","t","e","e","r"," ","c","r","e","w","s"," ","d","e","l","i","v","e","r",
    " ","W","A","T","E","R"," ","t","o"," ","t","h","e"," ","n","o","r","t","h"," ","s","h","e",
    "l","t","e","r",".">>
title7 == <<"R","o","a","d"," ","C","l","o","s","u","r","e","s">>
content7 ==
  <<"M","a","i","n"," ","S","t","r","e","e","t"," ","b","r","i","d","g","e"," ","c","l","o","s",
    "e","d"," ","u","n","t","i","l"," ","f","u","r","t","h","e","r"," ","n","o","t","i","c","e",
    ".">>
q_water_SHELTER == <<" ","W","a","t","e","r"," ",","," ","S","H","E","L","T","E","R"," ">>
q_water_ == <<"w","a","t","e","r",",">>
q_xyz == <<"x","y","z">>
q_NYC == <<"N","Y","C">>
q_emergency == <<"e","m","e","r","g","e","n","c","y">>
q_water_food == <<"w","a","t","e","r",",","f","o","o","d">>
q_Water_NYC == <<" ","W","a","t","e","r"," ",","," ","N","y","c"," ">>
q_flood_ == <<"f","l","o","o","d",",">>
q_help == <<"h","e","l","p">>
q_medical_42nd == <<"m","e","d","i","c","a","l",",","4","2","n","d">>
q_blank == <<" ">>
t_urgent ==
  <<"U","r","g","e","n","t"," ","u","p","d","a","t","e"," ","f","r","o","m"," ","t","h","e"," ",
    "h","a","r","b","o","r">>
t_sos == <<"S","O","S"," ","a","t"," ","t","h","e"," ","o","l","d"," ","b","r","i","d","g","e">>
t_emergency ==
  <<"E","m","e","r","g","e","n","c","y"," ","c","r","e","w","s"," ","a","r","e"," ","o","n"," ",
    "s","i","t","e">>
t_evacuate ==
  <<"P","l","e","a","s","e"," ","E","V","A","C","U","A","T","E"," ","t","h","e"," ","e","a","s",
    "t"," ","b","a","n","k">>
t_need == <<"W","e"," ","N","e","e","d"," ","b","l","a","n","k","e","t","s">>
t_help == <<"C","a","n"," ","a","n","y","o","n","e"," ","H","E","L","P"," ","u","s">>
t_stranded ==
  <<"C","a","r","s"," ","s","t","r","a","n","d","e","d"," ","o","n"," ","r","o","u","t","e"," ",
    "9">>
t_trapped ==
  <<"T","w","o"," ","h","i","k","e","r","s"," ","T","r","a","p","p","e","d"," ","b","y"," ","t",
    "h","e"," ","r","i","v","e","r">>
t_offering ==
  <<"O","f","f","e","r","i","n","g"," ","r","i","d","e","s"," ","t","o"," ","t","h","e"," ","c",
    "l","i","n","i","c">>
t_volunteer ==
  <<"V","o","l","u","n","t","e","e","r","s"," ","w","a","n","t","e","d"," ","a","t"," ","n","o",
    "o","n">>
t_shelter ==
  <<"T","h","e"," ","s","c","h","o","o","l"," ","i","s"," ","a"," ","S","h","e","l","t","e","r",
    " ","t","o","n","i","g","h","t">>
t_donate ==
  <<"D","o","n","a","t","e"," ","c","o","a","t","s"," ","a","t"," ","t","h","e"," ","l","i","b",
    "r","a","r","y">>
t_urgent_help ==
  <<"S","O","S"," ","w","e"," ","n","e","e","d"," ","h","e","l","p"," ","n","o","w">>
t_help_shelter ==
  <<"S","t","r","a","n","d","e","d"," ","f","a","m","i","l","y"," ","l","o","o","k","i","n","g",
    " ","f","o","r"," ","s","h","e","l","t","e","r">>
t_quiet ==
  <<"A","l","l"," ","q","u","i","e","t"," ","a","l","o","n","g"," ","t","h","e"," ","c","o","a",
    "s","t">>
loc_harbor == <<"H","a","r","b","o","r",","," ","N","Y","C">>

(***************************************************************************)
(* services/browse: the official-updates catalog and its pipeline          *)
(***************************************************************************)

\* The mock catalog.  url and contact are carried through untouched by every
\* operation and are left out; published_at is Date.now() minus 4 h, 2 h,
\* 1 h, 30 min and 6 h at load time, in minutes.
mockOfficialUpdates ==
  << [id |-> "1", source |-> "FEMA", title |-> title1, content |-> content1,
      published_at |-> -240, severity |-> s_high, category |-> s_shelter],
     [id |-> "2", source |-> "NYC Emergency Management", title |-> title2, content |-> content2,
      published_at |-> -120, severity |-> s_medium, category |-> s_supplies],
     [id |-> "3", source |-> "Red Cross", title |-> title3, content |-> content3,
      published_at |-> -60, severity |-> s_low, category |-> s_volunteer],
     [id |-> "4", source |-> "National Weather Service", title |-> title4, content |-> content4,
      published_at |-> -30, severity |-> s_high, category |-> s_weather],
     [id |-> "5", source |-> "Salvation Army", title |-> title5, content |-> content5,
      published_at |-> -360, severity |-> s_medium, category |-> s_food] >>

\* mockOfficialUpdates.filter(update => update.source === name)
mockBySource(name) ==
  LET Keep(update) == update.source = name
  IN  SelectSeq(mockOfficialUpdates, Keep)

\* The four scrapers are stubs: the try body logs and returns the source's
\* own mock records, and the catch handler returns the same records.
\* failed: whether the try body threw.
\* A FEMA scraper whose catch handler returns no records.
scrapeFEMAUpdatesEmptyOnError(failed) ==
  IF failed THEN <<>> ELSE mockBySource("FEMA")

scrapeFEMAUpdates(failed) ==
  IF failed THEN mockBySource("FEMA") ELSE mockBySource("FEMA")

scrapeRedCrossUpdates(failed) ==
  IF failed THEN mockBySource("Red Cross") ELSE mockBySource("Red Cross")

scrapeNYCEmergencyUpdates(failed) ==
  IF failed THEN mockBySource("NYC Emergency Management")
  ELSE mockBySource("NYC Emergency Management")

scrapeWeatherServiceUpdates(failed) ==
  IF failed THEN mockBySource("National Weather Service")
  ELSE mockBySource("National Weather Service")

\* const severityOrder = { high: 3, medium: 2, low: 1 }
severityOrder(severity) ==
  CASE severity = s_high -> 3
    [] severity = s_medium -> 2
    [] severity = s_low -> 1

\* The comparator of the sort in fetchOfficialUpdates.
compareUpdates(a, b) ==
  LET severityDiff == severityOrder(b.severity) - severityOrder(a.severity)
  IN  IF severityDiff # 0 THEN severityDiff
      ELSE b.published_at - a.published_at

\* const priorityOrder = { urgent: 3, high: 2, medium: 1, low: 0 }
priorityOrder(priority) ==
  CASE priority = "urgent" -> 3
    [] priority = "high" -> 2
    [] priority = "medium" -> 1
    [] priority = "low" -> 0

\* A comparator for processSocialMediaData that orders by priority alone.
comparePostsByPriorityOnly(a, b) ==
  priorityOrder(b.priority) - priorityOrder(a.priority)

\* The comparator of the sort in processSocialMediaData.
comparePosts(a, b) ==
  LET priorityDiff == priorityOrder(b.priority) - priorityOrder(a.priority)
  IN  IF priorityDiff # 0 THEN priorityDiff
      ELSE b.relevance_score - a.relevance_score

\* The comparator a sort call passes: "updates" or "posts".
compare(order, a, b) ==
  IF order = "updates" THEN compareUpdates(a, b) ELSE comparePosts(a, b)

\* Array.prototype.sort with a comparator.  The sort is stable (ECMAScript
\* 2019): an element is placed after every element that does not compare
\* greater than it.
RECURSIVE insertSorted(_, _, _)
insertSorted(sorted, x, order) ==
  IF sorted = <<>> THEN <<x>>
  ELSE IF compare(order, sorted[Len(sorted)], x) > 0
       THEN Append(insertSorted(SubSeq(sorted, 1, Len(sorted) - 1), x, order),
                   sorted[Len(sorted)])
       ELSE Append(sorted, x)

RECURSIVE sortFrom(_, _, _)
sortFrom(done, rest, order) ==
  IF rest = <<>> THEN done
  ELSE sortFrom(insertSorted(done, Head(rest), order), Tail(rest), order)

sort(arr, order) == sortFrom(<<>>, arr, order)

\* Array.prototype.includes
arrayIncludes(arr, x) == \E i \in 1..Len(arr) : arr[i] = x

\* A sources argument that is not an array: sources.includes throws.
NotAnArray == <<Null>>

\* The scraper calls of fetchOfficialUpdates with 'all' handled on top of the
\* ids: a source named next to 'all' is scraped twice.
scrapeSourcesAllOnTop(sources, failed) ==
  LET scraped(id, updates) ==
        (IF arrayIncludes(sources, s_all) THEN updates ELSE <<>>)
          \o (IF arrayIncludes(sources, id) THEN updates ELSE <<>>)
  IN  scraped(s_fema, scrapeFEMAUpdates(s_fema \in failed))
        \o scraped(s_redcross, scrapeRedCrossUpdates(s_redcross \in failed))
        \o scraped(s_nyc, scrapeNYCEmergencyUpdates(s_nyc \in failed))
        \o scraped(s_weather, scrapeWeatherServiceUpdates(s_weather \in failed))

\* The loop body of fetchOfficialUpdates: the records the selected scrapers
\* return, pushed to allUpdates in the order fema, redcross, nyc, weather.
\* failed: the set of source ids whose scraper's try body threw.
scrapeSources(sources, failed) ==
  LET shouldScrapeAll == arrayIncludes(sources, s_all)
      femaUpdates ==
        IF shouldScrapeAll \/ arrayIncludes(sources, s_fema)
        THEN scrapeFEMAUpdates(s_fema \in failed) ELSE <<>>
      redCrossUpdates ==
        IF shouldScrapeAll \/ arrayIncludes(sources, s_redcross)
        THEN scrapeRedCrossUpdates(s_redcross \in failed) ELSE <<>>
      nycUpdates ==
        IF shouldScrapeAll \/ arrayIncludes(sources, s_nyc)
        THEN scrapeNYCEmergencyUpdates(s_nyc \in failed) ELSE <<>>
      weatherUpdates ==
        IF shouldScrapeAll \/ arrayIncludes(sources, s_weather)
        THEN scrapeWeatherServiceUpdates(s_weather \in failed) ELSE <<>>
  IN  femaUpdates \o redCrossUpdates \o nycUpdates \o weatherUpdates

\* fetchOfficialUpdates(sources).
fetchOfficialUpdates(sources, failed) ==
  IF sources = NotAnArray
  THEN mockOfficialUpdates                     \* catch (error)
  ELSE
    LET allUpdates == scrapeSources(sources, failed)
    IN  IF Len(allUpdates) = 0
        THEN mockOfficialUpdates               \* "No official updates scraped"
        ELSE sort(allUpdates, "updates")

\* filterOfficialUpdates comparing category and severity without lower-casing.
filterOfficialUpdatesCaseSensitive(updates, category, severity) ==
  LET KeepCategory(update) == Truthy(update.category) /\ update.category = category
      KeepSeverity(update) == Truthy(update.severity) /\ update.severity = severity
      byCategory == IF Truthy(category) THEN SelectSeq(updates, KeepCategory) ELSE updates
  IN  IF Truthy(severity) THEN SelectSeq(byCategory, KeepSeverity) ELSE byCategory

\* filterOfficialUpdates(updates, category = null, severity = null)
filterOfficialUpdates(updates, category, severity) ==
  LET KeepCategory(update) ==
        Truthy(update.category) /\ toLowerCase(update.category) = toLowerCase(category)
      KeepSeverity(update) ==
        Truthy(update.severity) /\ toLowerCase(update.severity) = toLowerCase(severity)
      byCategory == IF Truthy(category) THEN SelectSeq(updates, KeepCategory) ELSE updates
  IN  IF Truthy(severity) THEN SelectSeq(byCategory, KeepSeverity) ELSE byCategory

\* searchOfficialUpdates keeping a record only when every term matches.
searchOfficialUpdatesEveryTerm(updates, keywords) ==
  IF ~Truthy(keywords) THEN updates
  ELSE
    LET keywordArray == mapTrim(split(toLowerCase(keywords)))
        Keep(update) ==
          LET searchText == toLowerCase(update.title \o <<" ">> \o update.content)
          IN  \A i \in 1..Len(keywordArray) : includes(searchText, keywordArray[i])
    IN  SelectSeq(updates, Keep)

\* searchOfficialUpdates(updates, keywords)
searchOfficialUpdates(updates, keywords) ==
  IF ~Truthy(keywords) THEN updates
  ELSE
    LET keywordArray == mapTrim(split(toLowerCase(keywords)))
        Keep(update) ==
          LET searchText == toLowerCase(update.title \o <<" ">> \o update.content)
          IN  \E i \in 1..Len(keywordArray) : includes(searchText, keywordArray[i])
    IN  SelectSeq(updates, Keep)

(***************************************************************************)
(* services/socialMedia: the social-report catalog and its pipeline        *)
(***************************************************************************)

\* The mock catalog.  user and verified are carried through untouched and are
\* left out; timestamp is Date.now() minus 2 h, 1 h, 30 min, 15 min, 45 min
\* and 3 h at load time, in minutes.
mockSocialMediaData ==
  << [id |-> "1", post |-> post1, timestamp |-> -120, priority |-> "high",
      location |-> location1, hashtags |-> <<h_floodrelief, h_emergency>>],
     [id |-> "2", post |-> post2, timestamp |-> -60, priority |-> "medium",
      location |-> location2, hashtags |-> <<h_disasterhelp, h_shelter>>],
     [id |-> "3", post |-> post3, timestamp |-> -30, priority |-> "urgent",
      location |-> location3, hashtags |-> <<h_emergencyhelp, h_medical>>],
     [id |-> "4", post |-> post4, timestamp |-> -15, priority |-> "urgent",
      location |-> location4, hashtags |-> <<h_earthquake, h_help>>],
     [id |-> "5", post |-> post5, timestamp |-> -45, priority |-> "urgent",
      location |-> location5, hashtags |-> <<h_fire, h_evacuate>>],
     [id |-> "6", post |-> post6, timestamp |-> -180, priority |-> "low",
      location |-> location6, hashtags |-> <<h_donate, h_help>>] >>

\* post.hashtags.some(hashtag => hashtag.toLowerCase().includes(keyword))
someHashtagIncludes(post, keyword) ==
  \E i \in 1..Len(post.hashtags) : includes(toLowerCase(post.hashtags[i]), keyword)

\* fetchMockSocialMediaData handing out the whole catalog when its filters
\* keep no post.
fetchMockSocialMediaDataOrCatalog(keywords, disasterType) ==
  LET keywordArray == mapTrim(split(toLowerCase(keywords)))
      KeepKeywords(post) ==
        \E i \in 1..Len(keywordArray) :
          \/ includes(toLowerCase(post.post), keywordArray[i])
          \/ someHashtagIncludes(post, keywordArray[i])
      type == toLowerCase(disasterType)
      KeepType(post) ==
        \/ includes(toLowerCase(post.post), type)
        \/ someHashtagIncludes(post, type)
      byKeywords ==
        IF Truthy(keywords) THEN SelectSeq(mockSocialMediaData, KeepKeywords)
        ELSE mockSocialMediaData
      filteredData ==
        IF Truthy(disasterType) THEN SelectSeq(byKeywords, KeepType) ELSE byKeywords
  IN  IF filteredData = <<>> THEN mockSocialMediaData ELSE filteredData

\* The body of fetchMockSocialMediaData's try block: the catalog narrowed by
\* keywords and then by disasterType.
fetchMockSocialMediaData(keywords, disasterType) ==
  LET keywordArray == mapTrim(split(toLowerCase(keywords)))
      KeepKeywords(post) ==
        \E i \in 1..Len(keywordArray) :
          \/ includes(toLowerCase(post.post), keywordArray[i])
          \/ someHashtagIncludes(post, keywordArray[i])
      type == toLowerCase(disasterType)
      KeepType(post) ==
        \/ includes(toLowerCase(post.post), type)
        \/ someHashtagIncludes(post, type)
      byKeywords ==
        IF Truthy(keywords) THEN SelectSeq(mockSocialMediaData, KeepKeywords)
        ELSE mockSocialMediaData
  IN  IF Truthy(disasterType) THEN SelectSeq(byKeywords, KeepType) ELSE byKeywords

\* calculateRelevanceScore: the forEach over keywordArray, from term i on.
RECURSIVE scoreTerms(_, _, _)
scoreTerms(post, keywordArray, i) ==
  IF i > Len(keywordArray) THEN 0
  ELSE
    LET keyword == keywordArray[i]
    IN  (IF includes(toLowerCase(post.post), keyword) THEN 3 ELSE 0)
        + (IF someHashtagIncludes(post, keyword) THEN 2 ELSE 0)
        + (IF Truthy(post.location) /\ includes(toLowerCase(post.location), keyword)
           THEN 1 ELSE 0)
        + scoreTerms(post, keywordArray, i + 1)

\* calculateRelevanceScore without the constant returned for missing keywords.
calculateRelevanceScoreZeroBaseline(post, keywords) ==
  IF ~Truthy(keywords) THEN 0
  ELSE scoreTerms(post, mapTrim(split(toLowerCase(keywords))), 1)

\* calculateRelevanceScore with a missing-keywords constant above the weight
\* of a location match.
calculateRelevanceScoreHighBaseline(post, keywords) ==
  IF ~Truthy(keywords) THEN 2
  ELSE scoreTerms(post, mapTrim(split(toLowerCase(keywords))), 1)

\* calculateRelevanceScore(post, keywords)
calculateRelevanceScore(post, keywords) ==
  IF ~Truthy(keywords) THEN 1
  ELSE scoreTerms(post, mapTrim(split(toLowerCase(keywords))), 1)

\* determinePriority testing the high keywords before the urgent ones.
determinePriorityHighFirst(post) ==
  LET postText == toLowerCase(post.post)
  IN  IF \/ includes(postText, s_need) \/ includes(postText, s_help)
         \/ includes(postText, s_stranded) \/ includes(postText, s_trapped)
      THEN "high"
      ELSE IF \/ includes(postText, s_urgent) \/ includes(postText, s_sos)
              \/ includes(postText, s_emergency) \/ includes(postText, s_evacuate)
      THEN "urgent"
      ELSE IF \/ includes(postText, s_offering) \/ includes(postText, s_volunteer)
              \/ includes(postText, s_shelter) \/ includes(postText, s_donate)
      THEN "medium"
      ELSE "low"

\* The priority processSocialMediaData determines for one post.
determinePriority(post) ==
  LET postText == toLowerCase(post.post)
  IN  IF \/ includes(postText, s_urgent) \/ includes(postText, s_sos)
         \/ includes(postText, s_emergency) \/ includes(postText, s_evacuate)
      THEN "urgent"
      ELSE IF \/ includes(postText, s_need) \/ includes(postText, s_help)
              \/ includes(postText, s_stranded) \/ includes(postText, s_trapped)
      THEN "high"
      ELSE IF \/ includes(postText, s_offering) \/ includes(postText, s_volunteer)
              \/ includes(postText, s_shelter) \/ includes(postText, s_donate)
      THEN "medium"
      ELSE "low"

\* processSocialMediaData spreading the post after the computed priority, so
\* that the stored priority stays.
processSocialMediaDataStoredPriority(data, keywords, now) ==
  LET processed ==
        [i \in 1..Len(data) |->
          [id |-> data[i].id, post |-> data[i].post, timestamp |-> data[i].timestamp,
           location |-> data[i].location, hashtags |-> data[i].hashtags,
           priority |-> data[i].priority,
           processed_at |-> now,
           relevance_score |-> calculateRelevanceScore(data[i], keywords)]]
  IN  sort(processed, "posts")

\* The map of processSocialMediaData: a new array of new records.
processedPosts(data, keywords, now) ==
  [i \in 1..Len(data) |->
    [id |-> data[i].id, post |-> data[i].post, timestamp |-> data[i].timestamp,
     location |-> data[i].location, hashtags |-> data[i].hashtags,
     priority |-> determinePriority(data[i]),
     processed_at |-> now,
     relevance_score |-> calculateRelevanceScore(data[i], keywords)]]

\* processSocialMediaData(data, keywords); now is new Date() at the call.
processSocialMediaData(data, keywords, now) ==
  sort(processedPosts(data, keywords, now), "posts")

\* A provider call's outcome: threw, or the data it returned.
Threw == [threw |-> TRUE, data |-> <<>>]

Returned(data) == [threw |-> FALSE, data |-> data]

\* fetchTwitterData(query, count): a stub over the mock catalog; count is not
\* used.  failed: whether its try body threw (the error is rethrown).
fetchTwitterData(query, count, failed) ==
  IF failed THEN Threw ELSE Returned(fetchMockSocialMediaData(query, Absent))

\* fetchBlueskyData(query, count): the same stub.
fetchBlueskyData(query, count, failed) ==
  IF failed THEN Threw ELSE Returned(fetchMockSocialMediaData(query, Absent))

\* What one provider attempt yielded: "data", "empty" or "threw".
Attempt(provider, outcome) == [provider |-> provider, outcome |-> outcome]

attemptOf(provider, result) ==
  Attempt(provider, IF result.threw THEN "threw"
                    ELSE IF Len(result.data) = 0 THEN "empty" ELSE "data")

\* fetchSocialMediaData with the Bluesky attempt not guarded by
\* data.length === 0.
fetchSocialMediaDataRunBlueskyAlways(keywords, disasterType, limit, env, failed, now) ==
  LET twitter == fetchTwitterData(keywords, limit, "twitter" \in failed)
      afterTwitter ==
        IF env.twitter /\ ~twitter.threw THEN twitter.data ELSE <<>>
      bluesky == fetchBlueskyData(keywords, limit, "bluesky" \in failed)
      afterBluesky ==
        IF env.bluesky /\ ~bluesky.threw THEN bluesky.data ELSE afterTwitter
      mock ==
        IF "mock" \in failed THEN Threw
        ELSE Returned(fetchMockSocialMediaData(keywords, disasterType))
      attempts ==
        (IF env.twitter THEN <<attemptOf("twitter", twitter)>> ELSE <<>>)
        \o (IF env.bluesky THEN <<attemptOf("bluesky", bluesky)>> ELSE <<>>)
        \o (IF Len(afterBluesky) = 0 THEN <<attemptOf("mock", mock)>> ELSE <<>>)
      data ==
        IF Len(afterBluesky) = 0
        THEN IF mock.threw THEN mockSocialMediaData ELSE mock.data
        ELSE afterBluesky
  IN  [attempts |-> attempts, out |-> processSocialMediaData(data, keywords, now)]

\* fetchSocialMediaData whose outer catch returns the mock catalog as it is.
fetchSocialMediaDataRunRawFallback(keywords, disasterType, limit, env, failed, now) ==
  LET twitter == fetchTwitterData(keywords, limit, "twitter" \in failed)
      afterTwitter ==
        IF env.twitter /\ ~twitter.threw THEN twitter.data ELSE <<>>
      blueskyTried == Len(afterTwitter) = 0 /\ env.bluesky
      bluesky == fetchBlueskyData(keywords, limit, "bluesky" \in failed)
      afterBluesky ==
        IF blueskyTried /\ ~bluesky.threw THEN bluesky.data ELSE afterTwitter
      mock ==
        IF "mock" \in failed THEN Threw
        ELSE Returned(fetchMockSocialMediaData(keywords, disasterType))
      attempts ==
        (IF env.twitter THEN <<attemptOf("twitter", twitter)>> ELSE <<>>)
        \o (IF blueskyTried THEN <<attemptOf("bluesky", bluesky)>> ELSE <<>>)
        \o (IF Len(afterBluesky) = 0 THEN <<attemptOf("mock", mock)>> ELSE <<>>)
  IN  [attempts |-> attempts,
       out |-> IF Len(afterBluesky) = 0
               THEN IF mock.threw THEN mockSocialMediaData
                    ELSE processSocialMediaData(mock.data, keywords, now)
               ELSE processSocialMediaData(afterBluesky, keywords, now)]

\* fetchSocialMediaData(keywords, disasterType, limit): the provider calls it
\* makes, in order, the array it hands to processSocialMediaData (data),
\* whether that array is the catalog itself, and the value it returns.
\* env: which of TWITTER_BEARER_TOKEN and BLUESKY_ACCESS_TOKEN are set;
\* failed: the provider calls ("twitter", "bluesky", "mock") that threw.
fetchSocialMediaDataRun(keywords, disasterType, limit, env, failed, now) ==
  LET twitter == fetchTwitterData(keywords, limit, "twitter" \in failed)
      afterTwitter ==
        IF env.twitter /\ ~twitter.threw THEN twitter.data ELSE <<>>
      blueskyTried == Len(afterTwitter) = 0 /\ env.bluesky
      bluesky == fetchBlueskyData(keywords, limit, "bluesky" \in failed)
      afterBluesky ==
        IF blueskyTried /\ ~bluesky.threw THEN bluesky.data ELSE afterTwitter
      mock ==
        IF "mock" \in failed THEN Threw
        ELSE Returned(fetchMockSocialMediaData(keywords, disasterType))
      attempts ==
        (IF env.twitter THEN <<attemptOf("twitter", twitter)>> ELSE <<>>)
        \o (IF blueskyTried THEN <<attemptOf("bluesky", bluesky)>> ELSE <<>>)
        \o (IF Len(afterBluesky) = 0 THEN <<attemptOf("mock", mock)>> ELSE <<>>)
      data ==
        IF Len(afterBluesky) = 0
        THEN IF mock.threw THEN mockSocialMediaData   \* the outer catch
             ELSE mock.data
        ELSE afterBluesky
  IN  [attempts |-> attempts, data |-> data,
       fromCatalog |-> Len(afterBluesky) = 0 /\ mock.threw,
       out |-> processSocialMediaData(data, keywords, now)]

\* fetchSocialMediaData(keywords, disasterType, limit): the value returned.
fetchSocialMediaData(keywords, disasterType, limit, env, failed, now) ==
  fetchSocialMediaDataRun(keywords, disasterType, limit, env, failed, now).out

(***************************************************************************)
(* State                                                                   *)
(***************************************************************************)
VARIABLES
  env,     \* process.env: which provider tokens are configured
  cache,   \* the cache store: cache key -> cached JSON value
  sent,    \* for each key written, the body sent by the request that last wrote it
  now,     \* the clock: one tick per handled request
  res,     \* the last handled request and the response it was sent
  call,    \* the last direct call of a service function and its result
  runs,    \* the identical getSocialMediaReports requests in flight together
  mem,     \* the arrays of the service module and of a caller chaining its functions
  sock     \* the live-broadcast handle, the connected sockets and their rooms

vars == <<env, cache, sent, now, res, call, runs, mem, sock>>

\* Requests handled in one run.
MaxRequests == 2

(***************************************************************************)
(* middleware/cache                                                        *)
(***************************************************************************)

\* getCachedData(key): the stored value, or nothing (null) when there is none.
hasCachedData(store, key) == key \in DOMAIN store

getCachedData(store, key) == store[key]

\* setCachedData(key, value): the store with the entry written.
setCachedData(store, key, value) ==
  [k \in DOMAIN store \cup {key} |-> IF k = key THEN value ELSE store[k]]

\* The store without the entry for key (expiry).
dropCachedData(store, key) == [k \in DOMAIN store \ {key} |-> store[k]]

(***************************************************************************)
(* controllers: request handlers                                           *)
(***************************************************************************)

\* a || b
orElse(a, b) == IF Truthy(a) THEN a ELSE b

\* A destructuring default: const { a = b } = req.query
withDefault(a, b) == IF a = Absent THEN b ELSE a

\* A JSON array as a response body or cached value.
jsonArray(items) == [array |-> items]

\* A request: the handler and the parameters sent (Absent when not sent).
Request(handler, id, sources, category, severity, keywords, limit, disaster_type, q) ==
  [handler |-> handler, id |-> id, sources |-> sources, category |-> category,
   severity |-> severity, keywords |-> keywords, limit |-> limit,
   disaster_type |-> disaster_type, q |-> q]

\* What a handler run leaves in res.  hit: the cache held the key; fetched:
\* the fetcher was invoked; fetchedData: what the fetcher returned (<<>> when
\* it was not invoked or threw); emitted: the events given to req.io.emit, in
\* order; steps: the steps the run performed, in order ("lookup" of the
\* cache, "fetch", "narrow" by filter, search and limit or "process" inside
\* the social fetcher, cache "write", "emit", "respond"); thrown: the step
\* that threw, "none" when none did.
Response(req, key, hit, fetched, fetchedData, emitted, steps, thrown, status, body) ==
  [req |-> req, key |-> key, hit |-> hit, fetched |-> fetched,
   fetchedData |-> fetchedData, emitted |-> emitted, steps |-> steps, thrown |-> thrown,
   status |-> status, body |-> body]

\* Before the first request.
NoRequest ==
  Response([handler |-> "none"], <<>>, FALSE, FALSE, <<>>, <<>>, <<>>, "none", 0,
           [none |-> TRUE])

\* sources === 'all' ? ['all'] : sources.split(',').map(s => s.trim())
parseSources(sources) ==
  IF sources = s_all THEN <<s_all>> ELSE mapTrim(split(sources))

\* `social_media_${disaster_id}_${keywords || 'all'}_${disaster_type || 'general'}`
socialMediaCacheKey(disaster_id, keywords, disaster_type) ==
  s_social_media_ \o disaster_id \o <<"_">> \o orElse(keywords, s_all)
    \o <<"_">> \o orElse(disaster_type, s_general)

\* getSocialMediaReports: the response body of a cache miss.
socialMediaEnvelope(disaster_id, keywords, disaster_type, socialMediaData, time) ==
  [disaster_id |-> disaster_id, total_posts |-> Len(socialMediaData),
   keywords_used |-> keywords, disaster_type |-> disaster_type,
   last_updated |-> time, posts |-> socialMediaData]

\* The catch block of the social-media handlers: 500 with the error alone.
\* steps: the steps up to the one that threw.
socialMediaFailure(req, cacheKey, steps, thrown, error) ==
  res' = Response(req, cacheKey, FALSE, "fetch" \in {steps[i] : i \in 1..Len(steps)}, <<>>,
                  <<>>, Append(steps, "respond"), thrown, 500, [error |-> error])

\* getSocialMediaReports with the broadcast moved before the cache write.
handleSocialMediaReportsEmitFirst(req, failed, thrown) ==
  LET disaster_id == req.id
      keywords == req.keywords
      limit == withDefault(req.limit, s_limit20)
      disaster_type == req.disaster_type
      cacheKey == socialMediaCacheKey(disaster_id, keywords, disaster_type)
      error == "Failed to fetch social media reports"
  IN  IF thrown = "lookup"
      THEN /\ socialMediaFailure(req, cacheKey, <<"lookup">>, thrown, error)
           /\ UNCHANGED <<cache, sent>>
      ELSE IF hasCachedData(cache, cacheKey)
      THEN /\ res' = Response(req, cacheKey, TRUE, FALSE, <<>>, <<>>,
                              <<"lookup", "respond">>, "none", 200,
                              getCachedData(cache, cacheKey))
           /\ UNCHANGED <<cache, sent>>
      ELSE IF thrown \in {"fetch", "emit"}
      THEN /\ socialMediaFailure(req, cacheKey, <<"lookup", "fetch">>, thrown, error)
           /\ UNCHANGED <<cache, sent>>
      ELSE \E socialMediaData \in
                {fetchSocialMediaData(keywords, disaster_type, parseInt(limit), env, failed,
                                      now)} :
             LET emitted == << [event |-> "social_media_updated",
                                disaster_id |-> disaster_id, data |-> socialMediaData] >>
                 body == socialMediaEnvelope(disaster_id, keywords, disaster_type,
                                             socialMediaData, now)
             IN  IF thrown = "write"
                 THEN /\ res' = Response(req, cacheKey, FALSE, TRUE, socialMediaData,
                                         emitted,
                                         <<"lookup", "fetch", "process", "emit", "write", "respond">>,
                                         thrown, 500, [error |-> error])
                      /\ UNCHANGED <<cache, sent>>
                 ELSE /\ cache' = setCachedData(cache, cacheKey, jsonArray(socialMediaData))
                      /\ sent' = setCachedData(sent, cacheKey, body)
                      /\ res' = Response(req, cacheKey, FALSE, TRUE, socialMediaData,
                                         emitted,
                                         <<"lookup", "fetch", "process", "emit", "write",
                                           "respond">>,
                                         "none", 200, body)

\* getSocialMediaReports(req, res), for one request, the provider calls that
\* fail during it and the step of the handler that throws (a step that is
\* not reached does not throw).
handleSocialMediaReports(req, failed, thrown) ==
  LET disaster_id == req.id
      keywords == req.keywords
      limit == withDefault(req.limit, s_limit20)
      disaster_type == req.disaster_type
      cacheKey == socialMediaCacheKey(disaster_id, keywords, disaster_type)
      error == "Failed to fetch social media reports"
  IN  IF thrown = "lookup"
      THEN /\ socialMediaFailure(req, cacheKey, <<"lookup">>, thrown, error)
           /\ UNCHANGED <<cache, sent>>
      ELSE IF hasCachedData(cache, cacheKey)
      THEN /\ res' = Response(req, cacheKey, TRUE, FALSE, <<>>, <<>>,
                              <<"lookup", "respond">>, "none", 200,
                              getCachedData(cache, cacheKey))
           /\ UNCHANGED <<cache, sent>>
      ELSE IF thrown = "fetch"
      THEN /\ socialMediaFailure(req, cacheKey, <<"lookup", "fetch">>, thrown, error)
           /\ UNCHANGED <<cache, sent>>
      ELSE IF thrown = "write"
      THEN /\ socialMediaFailure(req, cacheKey, <<"lookup", "fetch", "process", "write">>,
                                 thrown, error)
           /\ UNCHANGED <<cache, sent>>
      ELSE \E socialMediaData \in
                {fetchSocialMediaData(keywords, disaster_type, parseInt(limit), env, failed,
                                      now)} :
             IF thrown = "emit"
             THEN /\ cache' = setCachedData(cache, cacheKey, jsonArray(socialMediaData))
                  /\ sent' = setCachedData(sent, cacheKey, [error |-> error])
                  /\ socialMediaFailure(req, cacheKey,
                                        <<"lookup", "fetch", "process", "write", "emit">>,
                                        thrown, error)
             ELSE LET body == socialMediaEnvelope(disaster_id, keywords, disaster_type,
                                                  socialMediaData, now)
                  IN  /\ cache' = setCachedData(cache, cacheKey, jsonArray(socialMediaData))
                      /\ sent' = setCachedData(sent, cacheKey, body)
                      /\ res' = Response(req, cacheKey, FALSE, TRUE, socialMediaData,
                                         << [event |-> "social_media_updated",
                                             disaster_id |-> disaster_id,
                                             data |-> socialMediaData] >>,
                                         <<"lookup", "fetch", "process", "write", "emit",
                                           "respond">>,
                                         "none", 200, body)

\* getMockSocialMedia(req, res): no cache, no broadcast.
handleMockSocialMedia(req, failed, thrown) ==
  LET keywords == req.keywords
      limit == withDefault(req.limit, s_limit20)
      disaster_type == req.disaster_type
  IN  /\ IF thrown = "fetch"
         THEN socialMediaFailure(req, <<>>, <<"fetch">>, thrown,
                                 "Failed to fetch mock social media data")
         ELSE \E mockData \in
                   {fetchSocialMediaData(keywords, disaster_type, parseInt(limit), env,
                                         failed, now)} :
                res' = Response(req, <<>>, FALSE, TRUE, mockData, <<>>,
                                <<"fetch", "process", "respond">>, "none", 200,
                                [message |-> "Mock social media data",
                                 total_posts |-> Len(mockData), keywords_used |-> keywords,
                                 disaster_type |-> disaster_type, timestamp |-> now,
                                 posts |-> mockData])
      /\ UNCHANGED <<cache, sent>>

\* `official_updates_${disaster_id}_${sources}_${category || 'all'}_${severity || 'all'}_${keywords || 'none'}`
officialUpdatesCacheKey(disaster_id, sources, category, severity, keywords) ==
  s_official_updates_ \o disaster_id \o <<"_">> \o sources
    \o <<"_">> \o orElse(category, s_all) \o <<"_">> \o orElse(severity, s_all)
    \o <<"_">> \o orElse(keywords, s_none)

\* `updates_by_category_${category}_${sources}`
categoryCacheKey(category, sources) ==
  s_updates_by_category_ \o category \o <<"_">> \o sources

\* `search_updates_${query}_${sources}`
searchCacheKey(query, sources) ==
  s_search_updates_ \o query \o <<"_">> \o sources

\* limit > 0
isPositive(number) == ~number.nan /\ number.n > 0

\* getOfficialUpdates with the limit applied to the fetched records, before
\* the filters and the search.
narrowLimitFirst(officialUpdates, category, severity, keywords, limit) ==
  LET limited ==
        IF Truthy(limit) /\ isPositive(toNumber(limit))
        THEN slice(officialUpdates, parseInt(limit))
        ELSE officialUpdates
      byCategory ==
        IF Truthy(category) THEN filterOfficialUpdates(limited, category, Null) ELSE limited
      bySeverity ==
        IF Truthy(severity) THEN filterOfficialUpdates(byCategory, Null, severity)
        ELSE byCategory
  IN  IF Truthy(keywords) THEN searchOfficialUpdates(bySeverity, keywords) ELSE bySeverity

\* getOfficialUpdates, from "Apply filters if provided" to "Limit results".
narrowOfficialUpdates(officialUpdates, category, severity, keywords, limit) ==
  LET byCategory ==
        IF Truthy(category) THEN filterOfficialUpdates(officialUpdates, category, Null)
        ELSE officialUpdates
      bySeverity ==
        IF Truthy(severity) THEN filterOfficialUpdates(byCategory, Null, severity)
        ELSE byCategory
      byKeywords ==
        IF Truthy(keywords) THEN searchOfficialUpdates(bySeverity, keywords)
        ELSE bySeverity
  IN  IF Truthy(limit) /\ isPositive(toNumber(limit))
      THEN slice(byKeywords, parseInt(limit))
      ELSE byKeywords

\* getUpdatesByCategory, from "Filter by category" to "Limit results".
narrowCategoryUpdates(allUpdates, category, limit) ==
  LET categoryUpdates == filterOfficialUpdates(allUpdates, category, Null)
  IN  IF Truthy(limit) THEN slice(categoryUpdates, parseInt(limit)) ELSE categoryUpdates

\* searchAllUpdates, from "Search updates" to "Limit results".
narrowSearchResults(allUpdates, query, limit) ==
  LET searchResults == searchOfficialUpdates(allUpdates, query)
  IN  IF Truthy(limit) THEN slice(searchResults, parseInt(limit)) ELSE searchResults

\* A caching handler's tail: write the response through to the cache and send it.
respondAndCache(req, cacheKey, fetchedData, response) ==
  /\ cache' = setCachedData(cache, cacheKey, response)
  /\ sent' = setCachedData(sent, cacheKey, response)
  /\ res' = Response(req, cacheKey, FALSE, TRUE, fetchedData, <<>>,
                     <<"lookup", "fetch", "narrow", "write", "respond">>, "none", 200,
                     response)

\* A caching handler's cache hit: send the cached value.
respondFromCache(req, cacheKey) ==
  /\ res' = Response(req, cacheKey, TRUE, FALSE, <<>>, <<>>, <<"lookup", "respond">>,
                     "none", 200, getCachedData(cache, cacheKey))
  /\ UNCHANGED <<cache, sent>>

\* The catch block of the official-updates handlers: 500 with the error and
\* the message of the exception (here the step that threw).
respondFailure(req, cacheKey, thrown, error) ==
  /\ res' = Response(req, cacheKey, FALSE, thrown # "lookup", <<>>, <<>>,
                     CASE thrown = "lookup" -> <<"lookup", "respond">>
                       [] thrown = "fetch" -> <<"lookup", "fetch", "respond">>
                       [] thrown = "write" ->
                            <<"lookup", "fetch", "narrow", "write", "respond">>,
                     thrown, 500, [error |-> error, message |-> thrown])
  /\ UNCHANGED <<cache, sent>>

\* A caching handler from the cache lookup on: the step that throws, if
\* reached, ends the run in the catch block.
lookupOrCompute(req, cacheKey, thrown, error, fetchedData, response) ==
  IF thrown = "lookup" THEN respondFailure(req, cacheKey, thrown, error)
  ELSE IF hasCachedData(cache, cacheKey) THEN respondFromCache(req, cacheKey)
  ELSE IF thrown \in {"fetch", "write"} THEN respondFailure(req, cacheKey, thrown, error)
  ELSE respondAndCache(req, cacheKey, fetchedData, response)

\* getOfficialUpdates(req, res), for one request, the scrapers that fail
\* during it and the step of the handler that throws.
handleOfficialUpdates(req, failed, thrown) ==
  LET disaster_id == req.id
      sources == withDefault(req.sources, s_all)
      category == req.category
      severity == req.severity
      keywords == req.keywords
      limit == withDefault(req.limit, s_limit50)
      cacheKey == officialUpdatesCacheKey(disaster_id, sources, category, severity, keywords)
      sourceArray == parseSources(sources)
      fetched == fetchOfficialUpdates(sourceArray, failed)
      officialUpdates == narrowOfficialUpdates(fetched, category, severity, keywords, limit)
  IN  lookupOrCompute(req, cacheKey, thrown, "Failed to fetch official updates", fetched,
        [disaster_id |-> disaster_id, total_updates |-> Len(officialUpdates),
         sources_checked |-> sourceArray,
         filters_applied |-> [category |-> orElse(category, Null),
                              severity |-> orElse(severity, Null),
                              keywords |-> orElse(keywords, Null)],
         last_updated |-> now, updates |-> officialUpdates])

\* getUpdatesByCategory(req, res)
handleUpdatesByCategory(req, failed, thrown) ==
  LET category == req.category
      sources == withDefault(req.sources, s_all)
      limit == withDefault(req.limit, s_limit20)
      cacheKey == categoryCacheKey(category, sources)
      sourceArray == parseSources(sources)
      allUpdates == fetchOfficialUpdates(sourceArray, failed)
      limitedUpdates == narrowCategoryUpdates(allUpdates, category, limit)
  IN  lookupOrCompute(req, cacheKey, thrown, "Failed to fetch category updates", allUpdates,
        [category |-> category, total_updates |-> Len(limitedUpdates),
         sources_checked |-> sourceArray, last_updated |-> now,
         updates |-> limitedUpdates])

\* searchAllUpdates without the check of the query.
handleSearchAllUpdatesUnchecked(req, failed, thrown) ==
  LET query == req.q
      sources == withDefault(req.sources, s_all)
      limit == withDefault(req.limit, s_limit30)
      cacheKey == searchCacheKey(query, sources)
      sourceArray == parseSources(sources)
      allUpdates == fetchOfficialUpdates(sourceArray, failed)
      limitedResults == narrowSearchResults(allUpdates, query, limit)
  IN  lookupOrCompute(req, cacheKey, thrown, "Failed to search updates", allUpdates,
        [search_query |-> query, total_results |-> Len(limitedResults),
         sources_checked |-> sourceArray, last_updated |-> now,
         results |-> limitedResults])

\* searchAllUpdates(req, res)
handleSearchAllUpdates(req, failed, thrown) ==
  LET query == req.q
      sources == withDefault(req.sources, s_all)
      limit == withDefault(req.limit, s_limit30)
      cacheKey == searchCacheKey(query, sources)
      sourceArray == parseSources(sources)
      allUpdates == fetchOfficialUpdates(sourceArray, failed)
      limitedResults == narrowSearchResults(allUpdates, query, limit)
  IN  IF ~Truthy(query)
      THEN /\ res' = Response(req, <<>>, FALSE, FALSE, <<>>, <<>>, <<"respond">>, "none",
                              400, [error |-> "Search query is required"])
           /\ UNCHANGED <<cache, sent>>
      ELSE lookupOrCompute(req, cacheKey, thrown, "Failed to search updates", allUpdates,
             [search_query |-> query, total_results |-> Len(limitedResults),
              sources_checked |-> sourceArray, last_updated |-> now,
              results |-> limitedResults])

(***************************************************************************)
(* Inputs                                                                  *)
(***************************************************************************)

\* Longest list of sources, records or posts handed to a service function.
MaxListLen == 2

\* Sequences over S of length at most n.
SeqsUpTo(S, n) == UNION {[1..k -> S] : k \in 0..n}

Envs == [twitter : BOOLEAN, bluesky : BOOLEAN]

NoTokens == [twitter |-> FALSE, bluesky |-> FALSE]

\* Source ids a request may name, one of them unknown to the fetcher.
SourceIds == {s_all, s_fema, s_redcross, s_nyc, s_weather, s_unknown}

KnownSourceIds == {s_fema, s_redcross, s_nyc, s_weather}

\* Records as a live scraper would add them: mixed-case enumerations, and a
\* record without category and severity.
scraped6 ==
  [id |-> "6", source |-> "example.org", title |-> title6, content |-> content6,
   published_at |-> -10, severity |-> s_HIGH, category |-> s_Shelter]

scraped7 ==
  [id |-> "7", source |-> "example.org", title |-> title7, content |-> content7,
   published_at |-> -20, severity |-> Absent, category |-> Absent]

TestUpdates == {mockOfficialUpdates[i] : i \in 1..Len(mockOfficialUpdates)} \cup {scraped6, scraped7}

UpdateLists ==
  SeqsUpTo(TestUpdates, MaxListLen)
    \cup {mockOfficialUpdates, fetchOfficialUpdates(<<s_all>>, {})}

Categories == {Absent, Null, <<>>, s_shelter, s_SHELTER, s_supplies, s_weather, s_nope}

Severities == {Absent, Null, s_high, s_HIGH, s_Medium, s_low}

SearchKeywords ==
  {Absent, <<>>, s_water_volunteer, q_water_SHELTER, q_water_, q_xyz, q_emergency, q_blank}

\* Posts with one classification keyword each, with keywords of two tiers,
\* and with none.
TextPost(id, text) ==
  [id |-> id, post |-> text, timestamp |-> -5, priority |-> "low",
   location |-> Absent, hashtags |-> <<>>]

KeywordPosts ==
  { TextPost("u1", t_urgent), TextPost("u2", t_sos), TextPost("u3", t_emergency),
    TextPost("u4", t_evacuate), TextPost("h1", t_need), TextPost("h2", t_help),
    TextPost("h3", t_stranded), TextPost("h4", t_trapped), TextPost("m1", t_offering),
    TextPost("m2", t_volunteer), TextPost("m3", t_shelter), TextPost("m4", t_donate),
    TextPost("uh", t_urgent_help), TextPost("hm", t_help_shelter), TextPost("lo", t_quiet) }

\* A post matched by a query only through its location.
harborPost ==
  [id |-> "hb", post |-> t_quiet, timestamp |-> -5, priority |-> "low",
   location |-> loc_harbor, hashtags |-> <<h_help>>]

MockPosts == {mockSocialMediaData[i] : i \in 1..Len(mockSocialMediaData)}

TestPosts == MockPosts \cup KeywordPosts \cup {harborPost}

PostLists ==
  SeqsUpTo(MockPosts, MaxListLen) \cup {<<p>> : p \in TestPosts} \cup {mockSocialMediaData}

Queries ==
  {Absent, <<>>, q_NYC, q_emergency, s_water, q_water_food, q_Water_NYC, q_xyz, q_flood_,
   q_help, q_medical_42nd}

DisasterTypes == {Absent, s_fire, s_food}

Limits == {Absent, s_1, s_2, s_0}

ProviderFailures == SUBSET {"twitter", "bluesky", "mock"}

\* The requests sent to each handler: (keywords, limit, disaster_type) for the
\* social handlers, (sources, category, severity, keywords, limit) for
\* getOfficialUpdates, (category, sources, limit) for getUpdatesByCategory,
\* (q, sources, limit) for searchAllUpdates.
SocialQueries ==
  { <<Absent, Absent, Absent>>, <<Absent, s_2, Absent>>, <<s_water, s_1, Absent>>,
    <<s_water, Absent, s_fire>> }

OfficialQueries ==
  { <<Absent, Absent, Absent, Absent, Absent>>,
    <<Absent, Absent, Absent, Absent, s_2>>,
    <<s_fema_nyc, s_SHELTER, Absent, Absent, s_1>>,
    <<s_all, Absent, s_high, s_water_volunteer, s_0>>,
    <<s_unknown, Absent, Absent, s_water_volunteer, s_1>> }

CategoryQueries ==
  { <<s_shelter, Absent, Absent>>, <<s_SHELTER, Absent, Absent>>,
    <<s_SHELTER, s_fema_nyc, s_1>>, <<s_food, s_unknown, s_1>> }

SearchQueries ==
  { <<Absent, Absent, s_1>>, <<<<>>, Absent, Absent>>, <<s_water_volunteer, Absent, Absent>>,
    <<s_water_volunteer, Absent, s_1>>, <<q_emergency, s_fema_nyc, s_2>> }

HandlerProviderFailures == {{}, {"mock"}}

HandlerScraperFailures == {{}, {s_fema}}

\* The steps of a handler run that may throw: the cache lookup, the fetch
\* pipeline, the cache write and, in getSocialMediaReports, the emit.
OfficialThrowPoints == {"lookup", "fetch", "write"}

SocialThrowPoints == {"lookup", "fetch", "write", "emit"}

\* What goes wrong during one handler run: some scrapers or provider calls
\* fail inside the fetcher, or one step of the handler throws, or neither.
Faults(failures, throwPoints) ==
  {[failed |-> f, thrown |-> "none"] : f \in failures}
    \cup {[failed |-> {}, thrown |-> t] : t \in throwPoints}

\* The token configurations the social-media handlers run under.
HandlerEnvs == {NoTokens, [twitter |-> TRUE, bluesky |-> TRUE]}

(***************************************************************************)
(* The request handlers as a state machine                                 *)
(***************************************************************************)
NoCall == [in |-> [fn |-> "none"], done |-> FALSE]

\* No requests in flight together.
NoRuns == [pc |-> <<>>]

\* No chain of calls.
NoMemory == [calls |-> 0]

\* No socket server.
NoSockets == [io |-> "none"]

\* The official-updates router starts with an empty cache; its handlers do
\* not read the provider tokens.
Init ==
  /\ env = NoTokens
  /\ cache = <<>>
  /\ sent = <<>>
  /\ now = 0
  /\ res = NoRequest
  /\ call = NoCall
  /\ runs = NoRuns
  /\ mem = NoMemory
  /\ sock = NoSockets

\* The social-media router starts with an empty cache, with no provider
\* token or with both.
InitSocial ==
  /\ env \in HandlerEnvs
  /\ cache = <<>>
  /\ sent = <<>>
  /\ now = 0
  /\ res = NoRequest
  /\ call = NoCall
  /\ runs = NoRuns
  /\ mem = NoMemory
  /\ sock = NoSockets

Tick == now < MaxRequests /\ now' = now + 1

GetSocialMediaReports ==
  \E q \in SocialQueries, fault \in Faults(HandlerProviderFailures, SocialThrowPoints) :
    /\ Tick
    /\ handleSocialMediaReports(
         Request("getSocialMediaReports", s_d1, Absent, Absent, Absent, q[1], q[2], q[3],
                 Absent), fault.failed, fault.thrown)
    /\ UNCHANGED <<env, call, runs, mem, sock>>

GetMockSocialMedia ==
  \E q \in SocialQueries, fault \in Faults(HandlerProviderFailures, {"fetch"}) :
    /\ Tick
    /\ handleMockSocialMedia(
         Request("getMockSocialMedia", Absent, Absent, Absent, Absent, q[1], q[2], q[3],
                 Absent), fault.failed, fault.thrown)
    /\ UNCHANGED <<env, call, runs, mem, sock>>

GetOfficialUpdates ==
  \E q \in OfficialQueries, fault \in Faults(HandlerScraperFailures, OfficialThrowPoints) :
    /\ Tick
    /\ handleOfficialUpdates(
         Request("getOfficialUpdates", s_d1, q[1], q[2], q[3], q[4], q[5], Absent, Absent),
         fault.failed, fault.thrown)
    /\ UNCHANGED <<env, call, runs, mem, sock>>

GetUpdatesByCategory ==
  \E q \in CategoryQueries, fault \in Faults(HandlerScraperFailures, OfficialThrowPoints) :
    /\ Tick
    /\ handleUpdatesByCategory(
         Request("getUpdatesByCategory", Absent, q[2], q[1], Absent, Absent, q[3], Absent,
                 Absent), fault.failed, fault.thrown)
    /\ UNCHANGED <<env, call, runs, mem, sock>>

SearchAllUpdates ==
  \E q \in SearchQueries, fault \in Faults(HandlerScraperFailures, OfficialThrowPoints) :
    /\ Tick
    /\ handleSearchAllUpdates(
         Request("searchAllUpdates", Absent, q[2], Absent, Absent, Absent, q[3], Absent,
                 q[1]), fault.failed, fault.thrown)
    /\ UNCHANGED <<env, call, runs, mem, sock>>

\* The cache store drops an entry (its TTL ran out).
ExpireCacheEntry ==
  \E key \in DOMAIN cache :
    /\ cache' = dropCachedData(cache, key)
    /\ UNCHANGED <<env, sent, now, res, call, runs, mem, sock>>

\* The official-updates handlers and the cache.
Next ==
  \/ GetOfficialUpdates
  \/ GetUpdatesByCategory
  \/ SearchAllUpdates
  \/ ExpireCacheEntry

Spec == Init /\ [][Next]_vars

\* The social-media handlers and the cache.
NextSocial ==
  \/ GetSocialMediaReports
  \/ GetMockSocialMedia
  \/ ExpireCacheEntry

SpecSocial == InitSocial /\ [][NextSocial]_vars

(***************************************************************************)
(* The service functions called directly: the arguments are drawn at the   *)
(* start, one action per function applies it.                              *)
(***************************************************************************)
FetchOfficialCalls ==
  { [fn |-> "fetchOfficialUpdates", sources |-> s, failed |-> f] :
      s \in SeqsUpTo(SourceIds, MaxListLen) \cup {NotAnArray}, f \in SUBSET KnownSourceIds }

FilterCalls ==
  { [fn |-> "filterOfficialUpdates", updates |-> u, category |-> c, severity |-> s] :
      u \in UpdateLists, c \in Categories, s \in Severities }

SearchCalls ==
  { [fn |-> "searchOfficialUpdates", updates |-> u, keywords |-> k] :
      u \in UpdateLists, k \in SearchKeywords }

ProcessCalls ==
  { [fn |-> "processSocialMediaData", data |-> d, keywords |-> k] :
      d \in PostLists, k \in Queries }

RelevanceCalls ==
  { [fn |-> "calculateRelevanceScore", post |-> p, keywords |-> k] :
      p \in TestPosts, k \in Queries \cup {Null} }

FetchSocialCalls ==
  { [fn |-> "fetchSocialMediaData", keywords |-> k, disasterType |-> t, limit |-> l,
     failed |-> f] :
      k \in {Absent, s_water, q_help, q_xyz, q_water_SHELTER}, t \in DisasterTypes, l \in Limits,
      f \in ProviderFailures }

InitLib ==
  /\ runs = NoRuns
  /\ mem = NoMemory
  /\ sock = NoSockets
  /\ cache = <<>>
  /\ sent = <<>>
  /\ now = 0
  /\ res = NoRequest
  /\ \E c \in FetchOfficialCalls \cup FilterCalls \cup SearchCalls \cup ProcessCalls
                \cup RelevanceCalls \cup FetchSocialCalls :
       /\ call = [in |-> c, done |-> FALSE]
       /\ env \in (IF c.fn = "fetchSocialMediaData" THEN Envs ELSE {NoTokens})

Pending(fn) == ~call.done /\ call.in.fn = fn

Return(value) ==
  /\ call' = [in |-> call.in, done |-> TRUE, out |-> value]
  /\ UNCHANGED <<env, cache, sent, now, res, runs, mem, sock>>

CallFetchOfficialUpdates ==
  /\ Pending("fetchOfficialUpdates")
  /\ Return(fetchOfficialUpdates(call.in.sources, call.in.failed))

CallFilterOfficialUpdates ==
  /\ Pending("filterOfficialUpdates")
  /\ Return(filterOfficialUpdates(call.in.updates, call.in.category, call.in.severity))

CallSearchOfficialUpdates ==
  /\ Pending("searchOfficialUpdates")
  /\ Return(searchOfficialUpdates(call.in.updates, call.in.keywords))

CallProcessSocialMediaData ==
  /\ Pending("processSocialMediaData")
  /\ Return(processSocialMediaData(call.in.data, call.in.keywords, now))

CallCalculateRelevanceScore ==
  /\ Pending("calculateRelevanceScore")
  /\ Return(calculateRelevanceScore(call.in.post, call.in.keywords))

CallFetchSocialMediaData ==
  /\ Pending("fetchSocialMediaData")
  /\ LET run == fetchSocialMediaDataRun(call.in.keywords, call.in.disasterType,
                                        parseInt(withDefault(call.in.limit, s_limit20)),
                                        env, call.in.failed, now)
     IN  call' = [in |-> call.in, done |-> TRUE, out |-> run.out, attempts |-> run.attempts]
  /\ UNCHANGED <<env, cache, sent, now, res, runs, mem, sock>>

NextLib ==
  \/ CallFetchOfficialUpdates
  \/ CallFilterOfficialUpdates
  \/ CallSearchOfficialUpdates
  \/ CallProcessSocialMediaData
  \/ CallCalculateRelevanceScore
  \/ CallFetchSocialMediaData

SpecLib == InitLib /\ [][NextLib]_vars

(***************************************************************************)
(* Identical getSocialMediaReports requests in flight together.  A handler *)
(* run gives way to the other runs at each await: after the call of        *)
(* getCachedData, of fetchSocialMediaData and of setCachedData; the emit   *)
(* and the response follow the cache write without giving way.             *)
(***************************************************************************)

\* Requests in flight together.
MaxConcurrent == 2

Runs == 1..MaxConcurrent

\* The parameters (keywords, limit, disaster_type) all the requests share.
ConcurrentQueries == { <<Absent, Absent, Absent>>, <<s_water, Absent, s_fire>> }

\* pc: where each run stands ("start", then "fetch", "write", "emit" on a
\* miss, then "done"); observed: what its cache lookup found; data: the posts
\* it fetched; recomputations, writes: how many times it called the fetcher
\* and setCachedData; emitted: the events given to req.io.emit with the run
\* that emitted each; out: the body each run responded with; expired: the
\* cache store dropped the entry at some point.
InitConcurrent ==
  /\ env \in HandlerEnvs
  /\ cache = <<>>
  /\ sent = <<>>
  /\ now = 0
  /\ res = NoRequest
  /\ call = NoCall
  /\ mem = NoMemory
  /\ sock = NoSockets
  /\ \E q \in ConcurrentQueries :
       runs = [req |-> Request("getSocialMediaReports", s_d1, Absent, Absent, Absent,
                               q[1], q[2], q[3], Absent),
               pc |-> [i \in Runs |-> "start"],
               observed |-> [i \in Runs |-> "nothing"],
               data |-> [i \in Runs |-> <<>>],
               recomputations |-> [i \in Runs |-> 0],
               writes |-> [i \in Runs |-> 0],
               emitted |-> <<>>,
               out |-> [i \in Runs |-> [none |-> TRUE]],
               expired |-> FALSE]

runsCacheKey == socialMediaCacheKey(runs.req.id, runs.req.keywords, runs.req.disaster_type)

\* const cachedData = await getCachedData(cacheKey);
\* if (cachedData) return res.json(cachedData);
LookupReports(i) ==
  /\ runs.pc[i] = "start"
  /\ now' = now + 1
  /\ IF hasCachedData(cache, runsCacheKey)
     THEN runs' = [runs EXCEPT !.pc[i] = "done", !.observed[i] = "hit",
                               !.out[i] = getCachedData(cache, runsCacheKey)]
     ELSE runs' = [runs EXCEPT !.pc[i] = "fetch", !.observed[i] = "miss"]
  /\ UNCHANGED <<env, cache, sent, res, call, mem, sock>>

\* const socialMediaData = await fetchSocialMediaData(keywords, disaster_type, parseInt(limit));
FetchReports(i) ==
  /\ runs.pc[i] = "fetch"
  /\ \E socialMediaData \in
          {fetchSocialMediaData(runs.req.keywords, runs.req.disaster_type,
                                parseInt(withDefault(runs.req.limit, s_limit20)), env, {},
                                now)} :
       runs' = [runs EXCEPT !.pc[i] = "write", !.data[i] = socialMediaData,
                            !.recomputations[i] = @ + 1]
  /\ UNCHANGED <<env, cache, sent, now, res, call, mem, sock>>

\* The write of a run that leaves the write to the run that wrote first.
WriteReportsUnlessWritten(i) ==
  /\ runs.pc[i] = "write"
  /\ IF hasCachedData(cache, runsCacheKey)
     THEN /\ runs' = [runs EXCEPT !.pc[i] = "emit"]
          /\ UNCHANGED cache
     ELSE /\ cache' = setCachedData(cache, runsCacheKey, jsonArray(runs.data[i]))
          /\ runs' = [runs EXCEPT !.pc[i] = "emit", !.writes[i] = @ + 1]
  /\ UNCHANGED <<env, sent, now, res, call, mem, sock>>

\* await setCachedData(cacheKey, socialMediaData, 15);
WriteReports(i) ==
  /\ runs.pc[i] = "write"
  /\ cache' = setCachedData(cache, runsCacheKey, jsonArray(runs.data[i]))
  /\ runs' = [runs EXCEPT !.pc[i] = "emit", !.writes[i] = @ + 1]
  /\ UNCHANGED <<env, sent, now, res, call, mem, sock>>

\* req.io.emit('social_media_updated', { disaster_id, data: socialMediaData });
\* res.json({ ... posts: socialMediaData });
EmitReports(i) ==
  /\ runs.pc[i] = "emit"
  /\ LET body == socialMediaEnvelope(runs.req.id, runs.req.keywords,
                                     runs.req.disaster_type, runs.data[i], now)
     IN  /\ runs' = [runs EXCEPT !.pc[i] = "done",
                                 !.emitted = Append(@, [by |-> i,
                                                        event |-> "social_media_updated",
                                                        disaster_id |-> runs.req.id,
                                                        data |-> runs.data[i]]),
                                 !.out[i] = body]
         /\ sent' = setCachedData(sent, runsCacheKey, body)
  /\ UNCHANGED <<env, cache, now, res, call, mem, sock>>

\* The cache store drops the entry while requests are in flight.
ExpireReportsEntry ==
  /\ hasCachedData(cache, runsCacheKey)
  /\ \E i \in Runs : runs.pc[i] # "done"
  /\ cache' = dropCachedData(cache, runsCacheKey)
  /\ runs' = [runs EXCEPT !.expired = TRUE]
  /\ UNCHANGED <<env, sent, now, res, call, mem, sock>>

NextConcurrent ==
  \/ \E i \in Runs : LookupReports(i)
  \/ \E i \in Runs : FetchReports(i)
  \/ \E i \in Runs : WriteReports(i)
  \/ \E i \in Runs : EmitReports(i)
  \/ ExpireReportsEntry

SpecConcurrent == InitConcurrent /\ [][NextConcurrent]_vars

(***************************************************************************)
(* The arrays behind the service functions.  A JavaScript array is an      *)
(* object: sort reorders the array it is called on, while filter, map,     *)
(* slice and the spread build a new array.  A store maps the name of an    *)
(* array to its elements: the two module-level catalogs, "input" (an array *)
(* the caller built), "output" (the new array the last call returned),     *)
(* "data" and "local" (arrays a function builds while it runs).  As long   *)
(* as the catalogs in the store are the initial ones, the values the       *)
(* functions compute from them are those of the operators above.           *)
(***************************************************************************)

\* Calls in one chain.
MaxCalls == 2

emptyStore ==
  [mockOfficialUpdates |-> mockOfficialUpdates, mockSocialMediaData |-> mockSocialMediaData,
   input |-> <<>>, output |-> <<>>, data |-> <<>>, local |-> <<>>]

\* const name = [...] / = other.filter(...) / = other.map(...): a new array.
newArray(store, name, items) == [store EXCEPT ![name] = items]

\* name.sort(compare): the array itself is reordered.
sortArray(store, name, order) == [store EXCEPT ![name] = sort(store[name], order)]

\* What a call leaves: the store, and the name of the array it returns.
Effect(store, returned) == [store |-> store, returned |-> returned]

\* fetchOfficialUpdates sorting the mock set before it returns it.
fetchOfficialUpdatesInSortingFallback(store, sources, failed) ==
  IF sources = NotAnArray \/ Len(scrapeSources(sources, failed)) = 0
  THEN Effect(sortArray(store, "mockOfficialUpdates", "updates"), "mockOfficialUpdates")
  ELSE Effect(sortArray(newArray(store, "local", scrapeSources(sources, failed)),
                        "local", "updates"), "local")

\* fetchOfficialUpdates: const allUpdates = []; allUpdates.push(...) for each
\* scraper; return mockOfficialUpdates when nothing was pushed or something
\* threw, otherwise allUpdates.sort(...), which is allUpdates itself.
fetchOfficialUpdatesIn(store, sources, failed) ==
  IF sources = NotAnArray
  THEN Effect(store, "mockOfficialUpdates")
  ELSE LET allUpdates == newArray(store, "local", scrapeSources(sources, failed))
       IN  IF Len(allUpdates.local) = 0
           THEN Effect(store, "mockOfficialUpdates")
           ELSE Effect(sortArray(allUpdates, "local", "updates"), "local")

\* filterOfficialUpdates: let filtered = [...updates]; filtered =
\* filtered.filter(...); return filtered.
filterOfficialUpdatesIn(store, updates, category, severity) ==
  Effect(newArray(store, "local", filterOfficialUpdates(store[updates], category, severity)),
         "local")

\* searchOfficialUpdates: if (!keywords) return updates; return
\* updates.filter(...).
searchOfficialUpdatesIn(store, updates, keywords) ==
  IF ~Truthy(keywords) THEN Effect(store, updates)
  ELSE Effect(newArray(store, "local", searchOfficialUpdates(store[updates], keywords)),
              "local")

\* processSocialMediaData: const processed = data.map(...); return
\* processed.sort(...).
processSocialMediaDataIn(store, data, keywords, time) ==
  LET processed == newArray(store, "local", processedPosts(store[data], keywords, time))
  IN  Effect(sortArray(processed, "local", "posts"), "local")

\* fetchSocialMediaData: data is the array a provider returned (a filtered
\* copy of the catalog); the catch block hands the catalog itself to
\* processSocialMediaData.
fetchSocialMediaDataIn(store, keywords, disasterType, limit, tokens, failed, time) ==
  LET run == fetchSocialMediaDataRun(keywords, disasterType, limit, tokens, failed, time)
  IN  IF run.fromCatalog
      THEN processSocialMediaDataIn(store, "mockSocialMediaData", keywords, time)
      ELSE processSocialMediaDataIn(newArray(store, "data", run.data), "data", keywords,
                                    time)

(***************************************************************************)
(* A caller chaining the service functions: each call is given a new array *)
(* the caller built, or the array the previous call returned.              *)
(***************************************************************************)

ChainSources == {<<s_all>>, <<s_fema>>, <<s_weather, s_nyc>>, <<s_unknown>>, NotAnArray}

ChainUpdateLists == {<<>>, <<scraped6, mockOfficialUpdates[1]>>}

ChainPostLists ==
  {<<mockSocialMediaData[6], mockSocialMediaData[3]>>, <<mockSocialMediaData[2]>>}

ChainFilters == {<<Absent, Absent>>, <<s_SHELTER, Absent>>, <<Absent, s_high>>}

ChainKeywords == {Absent, s_water, q_emergency}

\* held: the array the last call returned, and kind, what it holds; passed:
\* the array given to the last call, before and after: its elements when
\* the call started and when it returned.
InitArrays ==
  /\ env = NoTokens
  /\ cache = <<>>
  /\ sent = <<>>
  /\ now = 0
  /\ res = NoRequest
  /\ call = NoCall
  /\ runs = NoRuns
  /\ sock = NoSockets
  /\ mem = [calls |-> 0, store |-> emptyStore, held |-> "none", kind |-> "none",
            fn |-> "none", passed |-> "none", before |-> <<>>, after |-> <<>>]

\* The call returns: the caller keeps the returned array, as "output" when
\* it is a new one; the arrays local to the call are gone.
Returns(fn, kind, passed, before, effect) ==
  /\ mem' = [calls |-> mem.calls + 1,
             store |-> [mockOfficialUpdates |-> effect.store.mockOfficialUpdates,
                        mockSocialMediaData |-> effect.store.mockSocialMediaData,
                        input |-> effect.store.input,
                        output |-> IF effect.returned = "local" THEN effect.store.local
                                   ELSE effect.store.output,
                        data |-> <<>>, local |-> <<>>],
             held |-> IF effect.returned = "local" THEN "output" ELSE effect.returned,
             kind |-> kind, fn |-> fn, passed |-> passed, before |-> before,
             after |-> IF passed = "none" THEN <<>> ELSE effect.store[passed]]
  /\ UNCHANGED <<env, cache, sent, now, res, call, runs, sock>>

\* The stores and array names a call can be given: a new array of the
\* caller's, or the array the previous call returned when it holds records
\* of the kind.
Arguments(kind, lists) ==
  {[store |-> newArray(mem.store, "input", l), name |-> "input"] : l \in lists}
    \cup (IF mem.kind = kind THEN {[store |-> mem.store, name |-> mem.held]} ELSE {})

ChainFetchOfficialUpdates ==
  /\ mem.calls < MaxCalls
  /\ \E sources \in ChainSources :
       Returns("fetchOfficialUpdates", "updates", "none", <<>>,
               fetchOfficialUpdatesIn(mem.store, sources, {}))

ChainFilterOfficialUpdates ==
  /\ mem.calls < MaxCalls
  /\ \E arg \in Arguments("updates", ChainUpdateLists), f \in ChainFilters :
       Returns("filterOfficialUpdates", "updates", arg.name, arg.store[arg.name],
               filterOfficialUpdatesIn(arg.store, arg.name, f[1], f[2]))

ChainSearchOfficialUpdates ==
  /\ mem.calls < MaxCalls
  /\ \E arg \in Arguments("updates", ChainUpdateLists), keywords \in ChainKeywords :
       Returns("searchOfficialUpdates", "updates", arg.name, arg.store[arg.name],
               searchOfficialUpdatesIn(arg.store, arg.name, keywords))

ChainFetchSocialMediaData ==
  /\ mem.calls < MaxCalls
  /\ \E keywords \in ChainKeywords, failed \in {{}, {"mock"}} :
       Returns("fetchSocialMediaData", "posts", "none", <<>>,
               fetchSocialMediaDataIn(mem.store, keywords, Absent, parseInt(s_limit20),
                                      env, failed, now))

ChainProcessSocialMediaData ==
  /\ mem.calls < MaxCalls
  /\ \E arg \in Arguments("posts", ChainPostLists), keywords \in ChainKeywords :
       Returns("processSocialMediaData", "posts", arg.name, arg.store[arg.name],
               processSocialMediaDataIn(arg.store, arg.name, keywords, now))

NextArrays ==
  \/ ChainFetchOfficialUpdates
  \/ ChainFilterOfficialUpdates
  \/ ChainSearchOfficialUpdates
  \/ ChainFetchSocialMediaData
  \/ ChainProcessSocialMediaData

SpecArrays == InitArrays /\ [][NextArrays]_vars

(***************************************************************************)
(* services/websocket: the live-broadcast handle (let io), the handlers    *)
(* initializeSocket registers on each connection, and the publishing       *)
(* utilities.  The Socket.IO server behind the handle keeps the connected  *)
(* sockets and the rooms: join and leave add and remove a socket, a room   *)
(* without sockets is dropped, a disconnecting socket leaves its rooms,    *)
(* io.emit reaches every connected socket, io.to(room).emit the sockets of *)
(* the room, socket.to(room).emit the sockets of the room but the sender.  *)
(***************************************************************************)

\* Client sockets.
MaxSockets == 2

Sockets == 1..MaxSockets

s_disaster_ == <<"d","i","s","a","s","t","e","r","_">>

s_location_ == <<"l","o","c","a","t","i","o","n","_">>

s_d2 == <<"d","2">>

DisasterIds == {s_d1, s_d2}

\* The client of each socket is its own user.
UserIds == Sockets

AlertPriorities == {"urgent", "URGENT", "high", "none"}

Latitudes == {40}

Longitudes == {0 - 74}

\* String(n) for an integer.
RECURSIVE digitsOf(_)
digitsOf(n) ==
  IF n < 10 THEN <<DigitChars[n + 1]>>
  ELSE digitsOf(n \div 10) \o <<DigitChars[(n % 10) + 1]>>

numberToString(n) == IF n < 0 THEN <<"-">> \o digitsOf(0 - n) ELSE digitsOf(n)

\* `disaster_${disasterId}`
disasterRoom(disasterId) == s_disaster_ \o disasterId

\* `location_${Math.round(lat * 100)}_${Math.round(lng * 100)}_${radius}`,
\* for whole degrees.
locationRoom(lat, lng, radius) ==
  s_location_ \o numberToString(lat * 100) \o <<"_">> \o numberToString(lng * 100)
    \o <<"_">> \o numberToString(radius)

\* socket.join(room)
joinRoom(rooms, room, socket) ==
  [r \in DOMAIN rooms \cup {room} |->
     IF r = room THEN (IF r \in DOMAIN rooms THEN rooms[r] ELSE {}) \cup {socket}
     ELSE rooms[r]]

\* socket.leave(room): the room is dropped with its last socket.
leaveRoom(rooms, room, socket) ==
  [r \in {q \in DOMAIN rooms : rooms[q] # {socket} \/ q # room} |->
     IF r = room THEN rooms[r] \ {socket} ELSE rooms[r]]

\* A disconnecting socket leaves every room.
leaveAll(rooms, socket) ==
  [r \in {q \in DOMAIN rooms : rooms[q] # {socket}} |-> rooms[r] \ {socket}]

\* The sockets io.to(room) addresses.
socketsIn(rooms, room) == IF room \in DOMAIN rooms THEN rooms[room] ELSE {}

\* One emit: the event, its payload and the sockets it is delivered to.
Emission(event, payload, to) == [event |-> event, payload |-> payload, to |-> to]

\* What the last operation did: the handle as it found it, the emits it
\* made, what it returned (Absent for nothing) and whether it threw.
Done(op, args, emitted, returned, threw) ==
  [op |-> op, args |-> args, ioSet |-> sock.io # "none", emitted |-> emitted,
   returned |-> [value |-> returned], threw |-> threw]

\* joined: for each socket and disaster, the socket's last join_disaster or
\* leave_disaster event since it connected ("none" before the first).
InitSocket ==
  /\ env = NoTokens
  /\ cache = <<>>
  /\ sent = <<>>
  /\ now = 0
  /\ res = NoRequest
  /\ call = NoCall
  /\ runs = NoRuns
  /\ mem = NoMemory
  /\ sock = [io |-> "none", connected |-> {}, rooms |-> <<>>,
             joined |-> [s \in Sockets |-> [d \in DisasterIds |-> "none"]],
             last |-> [op |-> "none", args |-> <<>>, ioSet |-> FALSE, emitted |-> <<>>,
                       returned |-> [value |-> Absent], threw |-> FALSE]]

SocketStep(next) ==
  /\ sock' = next
  /\ UNCHANGED <<env, cache, sent, now, res, call, runs, mem>>

\* initializeSocket(socketIO): io = socketIO; io.on('connection', ...)
InitializeSocket ==
  /\ sock.io = "none"
  /\ SocketStep([sock EXCEPT !.io = "server",
                             !.last = Done("initializeSocket", <<>>, <<>>, Absent, FALSE)])

\* A client connects: the connection handler registers the socket's handlers.
Connect(s) ==
  /\ sock.io # "none"
  /\ s \notin sock.connected
  /\ SocketStep([sock EXCEPT !.connected = @ \cup {s},
                             !.last = Done("connection", <<s>>, <<>>, Absent, FALSE)])

\* socket.on('join_disaster', disasterId => socket.join(`disaster_${disasterId}`))
JoinDisaster(s, d) ==
  /\ s \in sock.connected
  /\ SocketStep([sock EXCEPT !.rooms = joinRoom(@, disasterRoom(d), s),
                             !.joined[s][d] = "join",
                             !.last = Done("join_disaster", <<s, d>>, <<>>, Absent, FALSE)])

\* socket.on('leave_disaster', disasterId => socket.leave(`disaster_${disasterId}`))
LeaveDisaster(s, d) ==
  /\ s \in sock.connected
  /\ SocketStep([sock EXCEPT !.rooms = leaveRoom(@, disasterRoom(d), s),
                             !.joined[s][d] = "leave",
                             !.last = Done("leave_disaster", <<s, d>>, <<>>, Absent, FALSE)])

\* socket.on('join_location', ...): radius = 10 by default.
JoinLocation(s, lat, lng) ==
  /\ s \in sock.connected
  /\ SocketStep([sock EXCEPT !.rooms = joinRoom(@, locationRoom(lat, lng, 10), s),
                             !.last = Done("join_location", <<s>>, <<>>, Absent, FALSE)])

\* socket.on('typing', data => socket.to(`disaster_${data.disasterId}`).emit('user_typing', ...))
Typing(s, d) ==
  /\ s \in sock.connected
  /\ SocketStep([sock EXCEPT !.last =
       Done("typing", <<s, d>>,
            << Emission("user_typing", [userId |-> s, isTyping |-> TRUE],
                        socketsIn(sock.rooms, disasterRoom(d)) \ {s}) >>,
            Absent, FALSE)])

\* The emergency_alert handler relaying every alert.
emergencyAlertAnyPriority(priority) ==
  << Emission("urgent_alert", [message |-> "message", location |-> "location",
                                timestamp |-> now], sock.connected) >>

\* socket.on('emergency_alert', data => { if (data.priority === 'urgent') io.emit('urgent_alert', ...) })
emergencyAlert(priority) ==
  IF priority = "urgent"
  THEN << Emission("urgent_alert", [message |-> "message", location |-> "location",
                                    timestamp |-> now], sock.connected) >>
  ELSE <<>>

EmergencyAlert(s, priority) ==
  /\ s \in sock.connected
  /\ SocketStep([sock EXCEPT !.last =
       Done("emergency_alert", <<s, priority>>, emergencyAlert(priority), Absent, FALSE)])

\* socket.on('disconnect', ...): the server has dropped the socket.
Disconnect(s) ==
  /\ s \in sock.connected
  /\ SocketStep([sock EXCEPT !.connected = @ \ {s},
                             !.rooms = leaveAll(@, s),
                             !.joined[s] = [d \in DisasterIds |-> "none"],
                             !.last = Done("disconnect", <<s>>, <<>>, Absent, FALSE)])

\* A utility that uses the handle without testing it: io.emit on undefined
\* throws.
unguardedUtility(op, args, emitted, returned, unset) ==
  IF sock.io = "none" THEN Done(op, args, <<>>, Absent, TRUE)
  ELSE Done(op, args, emitted, returned, FALSE)

\* if (!io) return <nothing>; ... : a utility of the module, callable before
\* and after initializeSocket.
guardedUtility(op, args, emitted, returned, unset) ==
  IF sock.io = "none" THEN Done(op, args, <<>>, unset, FALSE)
  ELSE Done(op, args, emitted, returned, FALSE)

\* emitDisasterUpdate addressing every connected socket.
emitDisasterUpdateToAll(disasterId, eventType) ==
  << Emission(eventType, [disasterId |-> disasterId, data |-> "data", timestamp |-> now],
              sock.connected) >>

\* io.to(`disaster_${disasterId}`).emit(eventType, { disasterId, data, timestamp })
emitDisasterUpdate(disasterId, eventType) ==
  << Emission(eventType, [disasterId |-> disasterId, data |-> "data", timestamp |-> now],
              socketsIn(sock.rooms, disasterRoom(disasterId))) >>

EmitDisasterUpdate(d) ==
  /\ sock.io \in {"none", "server"}
  /\ SocketStep([sock EXCEPT !.last =
       guardedUtility("emitDisasterUpdate", <<d>>, emitDisasterUpdate(d, "disaster_updated"),
                      Absent, Absent)])

\* io.to(locationRoom).emit(eventType, { location, data, timestamp })
EmitLocationUpdate(lat, lng) ==
  /\ sock.io \in {"none", "server"}
  /\ SocketStep([sock EXCEPT !.last =
       guardedUtility("emitLocationUpdate", <<lat, lng>>,
                      << Emission("location_updated",
                                  [location |-> [lat |-> lat, lng |-> lng, radius |-> 10],
                                   data |-> "data", timestamp |-> now],
                                  socketsIn(sock.rooms, locationRoom(lat, lng, 10))) >>,
                      Absent, Absent)])

\* io.emit('system_alert', { ...alertData, timestamp })
BroadcastAlert ==
  /\ sock.io \in {"none", "server"}
  /\ SocketStep([sock EXCEPT !.last =
       guardedUtility("broadcastAlert", <<>>,
                      << Emission("system_alert", [type |-> "type", timestamp |-> now],
                                  sock.connected) >>,
                      Absent, Absent)])

\* emitToUser: io.emit(eventType, { targetUser: userId, data, timestamp })
emitToUser(userId, eventType) ==
  << Emission(eventType, [targetUser |-> userId, data |-> "data", timestamp |-> now],
              sock.connected) >>

EmitToUser(u) ==
  /\ sock.io \in {"none", "server"}
  /\ SocketStep([sock EXCEPT !.last =
       guardedUtility("emitToUser", <<u>>, emitToUser(u, "notification"), Absent, Absent)])

\* getConnectedClients: io.engine.clientsCount, 0 without the handle.
GetConnectedClients ==
  /\ sock.io \in {"none", "server"}
  /\ SocketStep([sock EXCEPT !.last =
       guardedUtility("getConnectedClients", <<>>, <<>>, Cardinality(sock.connected), 0)])

\* getRoomInfo(roomName): null without the handle.
GetRoomInfo(d) ==
  /\ sock.io \in {"none", "server"}
  /\ SocketStep([sock EXCEPT !.last =
       guardedUtility("getRoomInfo", <<d>>, <<>>,
                      [name |-> disasterRoom(d),
                       clientCount |-> Cardinality(socketsIn(sock.rooms, disasterRoom(d))),
                       clients |-> socketsIn(sock.rooms, disasterRoom(d))],
                      Null)])

\* cleanupRooms: rooms.delete(roomName) for every room without sockets.
CleanupRooms ==
  /\ sock.io \in {"none", "server"}
  /\ SocketStep([sock EXCEPT
       !.rooms = IF sock.io = "none" THEN @
                 ELSE [r \in {q \in DOMAIN @ : @[q] # {}} |-> @[r]],
       !.last = guardedUtility("cleanupRooms", <<>>, <<>>, Absent, Absent)])

\* getSocialMediaReports' emit as the sockets see it:
\* req.io.emit('social_media_updated', { disaster_id, data: socialMediaData }),
\* req.io being the server.
emitSocialMediaUpdated(disaster_id) ==
  << Emission("social_media_updated", [disaster_id |-> disaster_id, data |-> "data"],
              sock.connected) >>

EmitSocialMediaUpdated(d) ==
  /\ sock.io # "none"
  /\ SocketStep([sock EXCEPT !.last =
       Done("getSocialMediaReports", <<d>>, emitSocialMediaUpdated(d), Absent, FALSE)])

NextSocket ==
  \/ InitializeSocket
  \/ \E s \in Sockets : Connect(s)
  \/ \E s \in Sockets, d \in DisasterIds : JoinDisaster(s, d)
  \/ \E s \in Sockets, d \in DisasterIds : LeaveDisaster(s, d)
  \/ \E s \in Sockets, lat \in Latitudes, lng \in Longitudes : JoinLocation(s, lat, lng)
  \/ \E s \in Sockets, d \in DisasterIds : Typing(s, d)
  \/ \E s \in Sockets, priority \in AlertPriorities : EmergencyAlert(s, priority)
  \/ \E s \in Sockets : Disconnect(s)
  \/ \E d \in DisasterIds : EmitDisasterUpdate(d)
  \/ \E lat \in Latitudes, lng \in Longitudes : EmitLocationUpdate(lat, lng)
  \/ BroadcastAlert
  \/ \E u \in UserIds : EmitToUser(u)
  \/ GetConnectedClients
  \/ \E d \in DisasterIds : GetRoomInfo(d)
  \/ CleanupRooms
  \/ \E d \in DisasterIds : EmitSocialMediaUpdated(d)

SpecSocket == InitSocket /\ [][NextSocket]_vars

(***************************************************************************)
(* Properties                                                              *)
(***************************************************************************)

\* The items of a response body, under the name its handler gives them.
Items(response) ==
  CASE response.req.handler = "getOfficialUpdates" -> response.body.updates
    [] response.req.handler = "getUpdatesByCategory" -> response.body.updates
    [] response.req.handler = "searchAllUpdates" -> response.body.results
    [] OTHER -> response.body.posts

Min(a, b) == IF a < b THEN a ELSE b

\* The first n elements of seq, all of it when it is shorter.
FirstN(seq, n) == SubSeq(seq, 1, Min(n, Len(seq)))

\* A limit parameter that is a positive integer, and its value.
IsPositiveInteger(limit) ==
  /\ limit # Absent /\ limit # <<>>
  /\ \A i \in 1..Len(limit) : IsDigit(limit[i])
  /\ parseDigits(limit, 0) > 0

\* C1: a request that derives the key of a kept cache entry is sent the body
\* that was sent to the request that wrote the entry, and is served without
\* invoking the fetcher.
CacheRoundTrip ==
  res.hit => /\ res.body = sent[res.key]
             /\ ~res.fetched

\* The limit in force for a request: the one sent, or the handler's default.
LimitInForce(req) ==
  IF req.limit # Absent THEN req.limit
  ELSE CASE req.handler = "getOfficialUpdates" -> s_limit50
         [] req.handler = "getUpdatesByCategory" -> s_limit20
         [] req.handler = "searchAllUpdates" -> s_limit30
         [] OTHER -> s_limit20

\* The fetched (ranked) sequence after the filters and the search the request
\* asks of its handler, in the order fetched.
Narrowed(response) ==
  LET req == response.req
      fetched == response.fetchedData
  IN  CASE req.handler = "getOfficialUpdates" ->
             searchOfficialUpdates(
               filterOfficialUpdates(fetched, req.category, req.severity), req.keywords)
        [] req.handler = "getUpdatesByCategory" ->
             filterOfficialUpdates(fetched, req.category, Null)
        [] req.handler = "searchAllUpdates" ->
             searchOfficialUpdates(fetched, req.q)

OfficialHandlers == {"getOfficialUpdates", "getUpdatesByCategory", "searchAllUpdates"}

\* A response computed by an official-updates handler (a cache miss).
OfficialMiss ==
  /\ res.req.handler \in OfficialHandlers
  /\ res.status = 200
  /\ ~res.hit

\* C2: on a cache miss with a positive integer limit N the official-updates
\* handlers return exactly the first min(N, n) elements, in order, of the
\* n-element sequence left by fetching, ranking and filtering/searching.
LimitIsPrefixAfterNarrowing ==
  (OfficialMiss /\ IsPositiveInteger(LimitInForce(res.req)))
    => Items(res) = FirstN(Narrowed(res), parseDigits(LimitInForce(res.req), 0))

\* C2 happens: a search narrowed the fetched records to more than the limit
\* and the response was cut to the limit.
LimitCutNarrowedResults ==
  /\ OfficialMiss
  /\ IsPositiveInteger(res.req.limit)
  /\ Len(Narrowed(res)) > parseDigits(res.req.limit, 0)
  /\ Len(Narrowed(res)) < Len(res.fetchedData)
  /\ Len(Items(res)) = parseDigits(res.req.limit, 0)

SocialHandlers == {"getSocialMediaReports", "getMockSocialMedia"}

\* C3: with a positive integer limit N the social handlers are handed at most
\* N posts by fetchSocialMediaData and report a total_posts of at most N.
SocialLimitRespected ==
  ( /\ res.req.handler \in SocialHandlers
    /\ res.fetched
    /\ IsPositiveInteger(LimitInForce(res.req)) )
    => /\ Len(res.fetchedData) <= parseDigits(LimitInForce(res.req), 0)
       /\ res.body.total_posts <= parseDigits(LimitInForce(res.req), 0)

\* A direct call of fn has returned.
HasReturned(fn) == call.done /\ call.in.fn = fn

\* The severity ranks of the ranking: high 3 > medium 2 > low 1.
SeverityRank(severity) ==
  CASE severity = s_high -> 3
    [] severity = s_medium -> 2
    [] severity = s_low -> 1

\* a may stand before b in a ranked sequence.
RankedBefore(a, b) ==
  \/ SeverityRank(a.severity) > SeverityRank(b.severity)
  \/ /\ SeverityRank(a.severity) = SeverityRank(b.severity)
     /\ a.published_at >= b.published_at

IsRanked(updates) ==
  \A i, j \in 1..Len(updates) : i < j => RankedBefore(updates[i], updates[j])

\* C4: for every sources argument the sequence fetchOfficialUpdates returns
\* is ranked: higher severity first, and within a severity newer first.
FetchedUpdatesAreRanked ==
  HasReturned("fetchOfficialUpdates") => IsRanked(call.out)

\* The source whose records a source id asks for.
SourceNameOf(id) ==
  CASE id = s_fema -> "FEMA"
    [] id = s_redcross -> "Red Cross"
    [] id = s_nyc -> "NYC Emergency Management"
    [] id = s_weather -> "National Weather Service"

\* The sources a sources argument asks for: all four for 'all', otherwise
\* those of the known ids it lists.
RequestedSources(sources) ==
  IF \E i \in 1..Len(sources) : sources[i] = s_all
  THEN {SourceNameOf(id) : id \in KnownSourceIds}
  ELSE {SourceNameOf(sources[i]) : i \in {k \in 1..Len(sources) : sources[k] \in KnownSourceIds}}

Elements(seq) == {seq[i] : i \in 1..Len(seq)}

\* C5: fetchOfficialUpdates always returns a non-empty sequence of update
\* records; whichever scrapers fail, the result holds exactly the mock
\* records of the requested sources; and when no known source is requested
\* the result is the full 5-record mock set.
FetchNeverFailsNorEmpty ==
  HasReturned("fetchOfficialUpdates") =>
    LET requested == RequestedSources(call.in.sources)
    IN  /\ Len(call.out) > 0
        /\ Elements(call.out) \subseteq Elements(mockOfficialUpdates)
        /\ requested # {} =>
             Elements(call.out) = {u \in Elements(mockOfficialUpdates) : u.source \in requested}
        /\ requested = {} => call.out = mockOfficialUpdates

\* C5 happens: the FEMA scraper failed while FEMA and NYC were requested, and
\* both sources' records were returned.
FailedSourceReplacedByItsMock ==
  /\ HasReturned("fetchOfficialUpdates")
  /\ s_fema \in call.in.failed
  /\ call.in.sources = <<s_nyc, s_fema>>
  /\ Elements(call.out) = {mockOfficialUpdates[1], mockOfficialUpdates[2]}

\* needle occurs in hay as a contiguous run of characters.
IsSubstring(needle, hay) ==
  \E start \in 0..(Len(hay) - Len(needle)) :
    SubSeq(hay, start + 1, start + Len(needle)) = needle

\* An optional argument is given: it is neither absent nor the empty string.
Given(v) == v \notin {Absent, Null, <<>>}

SameIgnoringCase(a, b) == Given(a) /\ Given(b) /\ toLowerCase(a) = toLowerCase(b)

\* C6: filterOfficialUpdates returns exactly the input records, in input
\* order, whose category equals the given category and whose severity equals
\* the given severity, both ignoring case; with neither given it returns the
\* input; on the mock set category 'shelter' yields exactly FEMA record 1.
FilterKeepsExactlyTheMatches ==
  HasReturned("filterOfficialUpdates") =>
    LET category == call.in.category
        severity == call.in.severity
        Matches(u) ==
          /\ Given(category) => SameIgnoringCase(u.category, category)
          /\ Given(severity) => SameIgnoringCase(u.severity, severity)
    IN  /\ call.out = SelectSeq(call.in.updates, Matches)
        /\ (~Given(category) /\ ~Given(severity)) => call.out = call.in.updates
        /\ (call.in.updates = mockOfficialUpdates /\ category = s_shelter /\ ~Given(severity))
             => /\ Len(call.out) = 1
                /\ call.out[1].id = "1"
                /\ call.out[1].source = "FEMA"

\* C6 happens: the mock set filtered by 'SHELTER' gave the FEMA record.
FilteredMockSetByUpperCaseCategory ==
  /\ HasReturned("filterOfficialUpdates")
  /\ call.in.updates = mockOfficialUpdates
  /\ call.in.category = s_SHELTER
  /\ call.in.severity = Null
  /\ call.out = <<mockOfficialUpdates[1]>>

\* The terms of a keywords string: split on commas, trimmed, lower-cased.
Terms(keywords) ==
  LET parts == split(keywords)
  IN  [i \in 1..Len(parts) |-> toLowerCase(trim(parts[i]))]

\* C7: searchOfficialUpdates keeps a record, in input order, iff some term of
\* keywords is a substring of its lower-cased title + ' ' + content; empty or
\* absent keywords return the input; on the mock set 'water,volunteer'
\* yields exactly records 2 and 3.
SearchKeepsExactlyTheMatches ==
  HasReturned("searchOfficialUpdates") =>
    LET keywords == call.in.keywords
        Matches(u) ==
          \E i \in 1..Len(Terms(keywords)) :
            IsSubstring(Terms(keywords)[i], toLowerCase(u.title \o <<" ">> \o u.content))
    IN  /\ Given(keywords) => call.out = SelectSeq(call.in.updates, Matches)
        /\ ~Given(keywords) => call.out = call.in.updates
        /\ (call.in.updates = mockOfficialUpdates /\ keywords = s_water_volunteer)
             => [i \in 1..Len(call.out) |-> call.out[i].id] = <<"2", "3">>

\* C7 happens: the mock set searched for 'water,volunteer' gave the NYC water
\* record and the Red Cross volunteer record.
SearchedMockSetForTwoTerms ==
  /\ HasReturned("searchOfficialUpdates")
  /\ call.in.updates = mockOfficialUpdates
  /\ call.in.keywords = s_water_volunteer
  /\ call.out = <<mockOfficialUpdates[2], mockOfficialUpdates[3]>>

UrgentTerms == {s_urgent, s_sos, s_emergency, s_evacuate}

HighTerms == {s_need, s_help, s_stranded, s_trapped}

MediumTerms == {s_offering, s_volunteer, s_shelter, s_donate}

ContainsAny(text, terms) == \E t \in terms : IsSubstring(t, toLowerCase(text))

\* The class of a post text by first match in the precedence urgent, high,
\* medium, low.
Classify(text) ==
  CASE ContainsAny(text, UrgentTerms) -> "urgent"
    [] ~ContainsAny(text, UrgentTerms) /\ ContainsAny(text, HighTerms) -> "high"
    [] ~ContainsAny(text, UrgentTerms \cup HighTerms) /\ ContainsAny(text, MediumTerms)
         -> "medium"
    [] OTHER -> "low"

\* C8: processSocialMediaData gives every post the priority of the first
\* keyword set, in the order urgent, high, medium, that its lower-cased text
\* matches, and low when none matches; a post with both an urgent and a high
\* term is urgent.
PriorityIsFirstMatch ==
  HasReturned("processSocialMediaData") =>
    /\ Len(call.out) = Len(call.in.data)
    /\ \A i \in 1..Len(call.in.data) :
         \E j \in 1..Len(call.out) : call.out[j].id = call.in.data[i].id
    /\ \A j \in 1..Len(call.out) :
         /\ call.out[j].priority = Classify(call.out[j].post)
         /\ (ContainsAny(call.out[j].post, UrgentTerms) /\ ContainsAny(call.out[j].post, HighTerms))
              => call.out[j].priority = "urgent"

\* C8 happens: a post holding 'sos' and also 'need' and 'help' was processed
\* and came out urgent.
UrgentAndHighTermsGiveUrgent ==
  /\ HasReturned("processSocialMediaData")
  /\ \E j \in 1..Len(call.out) :
       /\ call.out[j].post = t_urgent_help
       /\ ContainsAny(call.out[j].post, HighTerms)
       /\ call.out[j].priority = "urgent"

\* The score one term adds: 3 for the text, 2 for any hashtag, 1 for the
\* location.
TermWeight(post, term) ==
  (IF IsSubstring(term, toLowerCase(post.post)) THEN 3 ELSE 0)
  + (IF \E h \in Elements(post.hashtags) : IsSubstring(term, toLowerCase(h)) THEN 2 ELSE 0)
  + (IF Given(post.location) /\ IsSubstring(term, toLowerCase(post.location)) THEN 1 ELSE 0)

RECURSIVE WeightSum(_, _)
WeightSum(post, terms) ==
  IF terms = <<>> THEN 0 ELSE TermWeight(post, Head(terms)) + WeightSum(post, Tail(terms))

\* C9 as stated: calculateRelevanceScore returns 1 when keywords is absent,
\* and otherwise the sum over the terms of keywords of 3 for a text match, 2
\* for a hashtag match and 1 for a location match.
ScoreIsOneOnlyWhenAbsent ==
  HasReturned("calculateRelevanceScore") =>
    call.out = IF call.in.keywords \in {Absent, Null} THEN 1
               ELSE WeightSum(call.in.post, Terms(call.in.keywords))

\* C9 as amended: calculateRelevanceScore returns 1 when keywords is absent
\* or the empty string, and otherwise the sum over the terms of keywords of 3
\* for a text match, 2 for a hashtag match and 1 for a location match, so
\* that keywords with no match score 0.
ScoreIsOneWhenAbsentOrEmpty ==
  HasReturned("calculateRelevanceScore") =>
    /\ call.out = IF ~Given(call.in.keywords) THEN 1
                  ELSE WeightSum(call.in.post, Terms(call.in.keywords))
    /\ (Given(call.in.keywords)
        /\ \A i \in 1..Len(Terms(call.in.keywords)) :
             TermWeight(call.in.post, Terms(call.in.keywords)[i]) = 0)
         => call.out = 0

\* C9 happens: the first mock post scored 4 for ' Water , Nyc ', 3 for the
\* text and 1 for the location.
ScoredTextAndLocation ==
  /\ HasReturned("calculateRelevanceScore")
  /\ call.in.post = mockSocialMediaData[1]
  /\ call.in.keywords = q_Water_NYC
  /\ call.out = 4

\* Terms that may be appended to a query, and texts that may replace a
\* post's text.
AppendedTerms == {s_water, s_help, q_NYC, s_shelter, q_emergency}

ReplacementTexts == {t_quiet, content7}

\* term matches the post: in its text, a hashtag or its location.
TermMatches(post, term) == TermWeight(post, toLowerCase(trim(term))) > 0

\* The query with one more term.
WithTerm(keywords, term) ==
  IF Given(keywords) THEN keywords \o <<",">> \o term ELSE term

\* C10: appending to the query a term that matches the post never lowers
\* calculateRelevanceScore, also when the query was absent; and a post whose
\* text matches a term of the query scores at least 3 more than the same
\* post with a text that matches no term.
ScoreIsMonotonic ==
  HasReturned("calculateRelevanceScore") =>
    LET post == call.in.post
        keywords == call.in.keywords
        TextMatches(text) ==
          \E i \in 1..Len(Terms(keywords)) : IsSubstring(Terms(keywords)[i], toLowerCase(text))
    IN  /\ \A term \in AppendedTerms :
             TermMatches(post, term)
               => calculateRelevanceScore(post, WithTerm(keywords, term)) >= call.out
        /\ (Given(keywords) /\ TextMatches(post.post))
             => \A text \in ReplacementTexts :
                  ~TextMatches(text)
                    => call.out >= calculateRelevanceScore([post EXCEPT !.post = text], keywords) + 3

\* C10 happens: a post matched by 'NYC' through its location only was scored
\* without keywords, and scores no less with 'NYC' as the query.
LocationTermAppendedToAbsentQuery ==
  /\ HasReturned("calculateRelevanceScore")
  /\ call.in.post = harborPost
  /\ call.in.keywords = Absent
  /\ TermMatches(harborPost, q_NYC)
  /\ ~IsSubstring(toLowerCase(q_NYC), toLowerCase(harborPost.post))
  /\ calculateRelevanceScore(harborPost, q_NYC) >= call.out

\* The priority ranks of the ranking: urgent 3 > high 2 > medium 1 > low 0.
PriorityRank(priority) ==
  CASE priority = "urgent" -> 3
    [] priority = "high" -> 2
    [] priority = "medium" -> 1
    [] priority = "low" -> 0

\* The relevance of a post for a query, by the weights 3, 2 and 1.
Relevance(post, keywords) ==
  IF Given(keywords) THEN WeightSum(post, Terms(keywords)) ELSE 1

\* Input post j stands before input post i in the ranked output: a higher
\* priority rank, or the same rank and a higher relevance, or equal on both
\* and earlier in the input.
StandsBefore(data, keywords, j, i) ==
  LET rankI == PriorityRank(Classify(data[i].post))
      rankJ == PriorityRank(Classify(data[j].post))
      scoreI == Relevance(data[i], keywords)
      scoreJ == Relevance(data[j], keywords)
  IN  \/ rankJ > rankI
      \/ rankJ = rankI /\ scoreJ > scoreI
      \/ rankJ = rankI /\ scoreJ = scoreI /\ j < i

\* C11: processSocialMediaData returns a permutation of the annotated input
\* posts, descending by priority rank and within a rank descending by
\* relevance_score; posts equal on both keep their input order.
ProcessedPostsAreRanked ==
  HasReturned("processSocialMediaData") =>
    LET data == call.in.data
        keywords == call.in.keywords
        Place(i) == 1 + Cardinality({j \in 1..Len(data) : StandsBefore(data, keywords, j, i)})
    IN  /\ Len(call.out) = Len(data)
        /\ \A i \in 1..Len(data) :
             /\ call.out[Place(i)].id = data[i].id
             /\ call.out[Place(i)].post = data[i].post
             /\ call.out[Place(i)].priority = Classify(data[i].post)
             /\ call.out[Place(i)].relevance_score = Relevance(data[i], keywords)
        /\ \A a, b \in 1..Len(call.out) :
             a < b =>
               \/ PriorityRank(call.out[a].priority) > PriorityRank(call.out[b].priority)
               \/ /\ call.out[a].priority = call.out[b].priority
                  /\ call.out[a].relevance_score >= call.out[b].relevance_score

\* C11 happens: the mock set was processed for 'help'; the two high posts
\* came out with the later, better matching one first.
RelevanceReorderedEqualPriority ==
  /\ HasReturned("processSocialMediaData")
  /\ call.in.data = mockSocialMediaData
  /\ \E a, b \in 1..Len(call.out) :
       /\ a < b
       /\ call.out[a].priority = call.out[b].priority
       /\ call.out[a].relevance_score > call.out[b].relevance_score
       /\ \E i, j \in 1..Len(call.in.data) :
            i > j /\ call.in.data[i].id = call.out[a].id /\ call.in.data[j].id = call.out[b].id

\* The mock set was processed with no keywords.
ProcessedMockSetWithoutKeywords ==
  /\ HasReturned("processSocialMediaData")
  /\ call.in.data = mockSocialMediaData
  /\ ~Given(call.in.keywords)

\* C12 as stated: processing the mock set with no keywords ranks posts 3, 4
\* and 5 first, in their input order, all three urgent, ahead of the other
\* posts, none of which is urgent.
ThreeUrgentPostsFirst ==
  ProcessedMockSetWithoutKeywords =>
    /\ [i \in 1..3 |-> call.out[i].id] = <<"3", "4", "5">>
    /\ \A i \in 1..Len(call.out) : (call.out[i].priority = "urgent") <=> (i <= 3)

\* C12 as amended: processing the mock set with no keywords ranks posts 3
\* and 5 first, both urgent, ahead of posts 1, 2, 4 and 6, all four high
\* (post 4 holds no urgent term and is high through 'help'); the urgent
\* posts and the high posts keep their input order, all relevance scores
\* being the constant 1.
TwoUrgentPostsFirst ==
  ProcessedMockSetWithoutKeywords =>
    /\ [i \in 1..Len(call.out) |-> call.out[i].id] = <<"3", "5", "1", "2", "4", "6">>
    /\ [i \in 1..Len(call.out) |-> call.out[i].priority]
         = <<"urgent", "urgent", "high", "high", "high", "high">>
    /\ \A i \in 1..Len(call.out) : call.out[i].relevance_score = 1

\* C12 happens: the mock set was processed without keywords and post 4,
\* stored as urgent, came out high behind post 5.
StoredUrgentPostCameOutHigh ==
  /\ ProcessedMockSetWithoutKeywords
  /\ call.in.keywords = Absent
  /\ mockSocialMediaData[4].priority = "urgent"
  /\ call.out[2].id = "5"
  /\ call.out[5].id = "4"
  /\ call.out[5].priority = "high"

\* The order in which the providers are tried.
ProviderOrder(provider) ==
  CASE provider = "twitter" -> 1
    [] provider = "bluesky" -> 2
    [] provider = "mock" -> 3

\* C13: fetchSocialMediaData tries the providers in the order Twitter,
\* Bluesky, mock, each at most once: Twitter only with its token, Bluesky
\* only with its token and after no attempt that yielded data, mock only
\* after no attempt that yielded data; whatever the attempts yield, also an
\* exception, the call returns a sequence of posts.
ProvidersTriedInOrder ==
  HasReturned("fetchSocialMediaData") =>
    LET attempts == call.attempts
        YieldedBefore(k) == \E j \in 1..(k - 1) : attempts[j].outcome = "data"
    IN  /\ \A j, k \in 1..Len(attempts) :
             j < k => ProviderOrder(attempts[j].provider) < ProviderOrder(attempts[k].provider)
        /\ \A k \in 1..Len(attempts) :
             /\ attempts[k].provider = "twitter" => env.twitter
             /\ attempts[k].provider = "bluesky" => env.bluesky /\ ~YieldedBefore(k)
             /\ attempts[k].provider = "mock" => ~YieldedBefore(k)
             /\ attempts[k].outcome = "threw" <=> attempts[k].provider \in call.in.failed
        /\ DOMAIN call.out = 1..Len(call.out)
        /\ \A i \in 1..Len(call.out) : call.out[i].priority \in {"urgent", "high", "medium", "low"}

\* C13 happens: with both tokens set Twitter and Bluesky threw and the mock
\* provider supplied the posts returned.
FellThroughToMockProvider ==
  /\ HasReturned("fetchSocialMediaData")
  /\ env.twitter /\ env.bluesky
  /\ call.attempts = <<Attempt("twitter", "threw"), Attempt("bluesky", "threw"),
                       Attempt("mock", "data")>>
  /\ Len(call.out) > 0

\* C14: whichever provider supplied the data, every post fetchSocialMediaData
\* returns has been processed: its priority is one of urgent, high, medium,
\* low and is the classification of its own text, whatever priority the
\* source record stored, and it carries relevance_score and processed_at.
EveryReturnedPostIsProcessed ==
  HasReturned("fetchSocialMediaData") =>
    \A i \in 1..Len(call.out) :
      /\ {"priority", "relevance_score", "processed_at"} \subseteq DOMAIN call.out[i]
      /\ call.out[i].priority \in {"urgent", "high", "medium", "low"}
      /\ call.out[i].priority = Classify(call.out[i].post)
      /\ call.out[i].relevance_score = Relevance(call.out[i], call.in.keywords)
      /\ call.out[i].processed_at = now

\* C14 happens: the mock provider threw, the error fallback returned the
\* catalog, and post 4, stored as urgent, came back classified high.
ErrorFallbackPostsAreProcessed ==
  /\ HasReturned("fetchSocialMediaData")
  /\ call.attempts = <<Attempt("mock", "threw")>>
  /\ Len(call.out) = Len(mockSocialMediaData)
  /\ \E i \in 1..Len(call.out) :
       /\ call.out[i].id = "4"
       /\ call.out[i].priority = "high"
       /\ mockSocialMediaData[4].priority = "urgent"

(***************************************************************************)
(* The steps of a handler run                                              *)
(***************************************************************************)

\* The steps of a complete computing run of each handler, in the order of
\* its code.
StepOrder(handler) ==
  CASE handler = "getSocialMediaReports" ->
         <<"lookup", "fetch", "process", "write", "emit", "respond">>
    [] handler = "getMockSocialMedia" -> <<"fetch", "process", "respond">>
    [] OTHER -> <<"lookup", "fetch", "narrow", "write", "respond">>

\* The steps of order up to and including the given one.
StepsThrough(order, step) ==
  SubSeq(order, 1, CHOOSE i \in 1..Len(order) : order[i] = step)

\* The steps of a run of the handler in which the given step threw ("none":
\* no step did); the catch block responds after the step that threw.
StepsOfRun(handler, thrown) ==
  IF thrown = "none" THEN StepOrder(handler)
  ELSE Append(StepsThrough(StepOrder(handler), thrown), "respond")

\* This step is a handler run (each run advances the clock).
HandlerRan == now' # now

\* C15: in every handler run, a cache hit answers with the cached value and
\* does no fetch, no cache write and no broadcast; a miss performs its steps
\* in the order fetch, filter/search/process, cache write, broadcast emit
\* (getSocialMediaReports only), response, so that an emitted event finds its
\* data already in the cache; the official-updates handlers never emit.
HandlerStepsInOrder ==
  [][HandlerRan =>
       /\ res'.hit =>
            /\ res'.steps = <<"lookup", "respond">>
            /\ res'.key \in DOMAIN cache
            /\ res'.body = cache[res'.key]
            /\ ~res'.fetched
            /\ res'.emitted = <<>>
            /\ cache' = cache
       /\ (~res'.hit /\ res'.status # 400) =>
            /\ res'.steps = StepsOfRun(res'.req.handler, res'.thrown)
            /\ res'.fetched <=> (res'.thrown # "lookup")
       /\ cache' # cache =>
            /\ ~res'.hit
            /\ res'.fetched
            /\ cache' = setCachedData(cache, res'.key, cache'[res'.key])
       /\ res'.emitted # <<>> =>
            /\ res'.req.handler = "getSocialMediaReports"
            /\ Len(res'.emitted) = 1
            /\ res'.emitted[1].event = "social_media_updated"
            /\ res'.emitted[1].data = res'.fetchedData
            /\ res'.key \in DOMAIN cache'
            /\ cache'[res'.key] = jsonArray(res'.fetchedData)
       /\ res'.req.handler \in OfficialHandlers => res'.emitted = <<>>
  ]_vars

\* C15 happens: getSocialMediaReports missed the cache, computed the posts,
\* wrote them to the cache, emitted them and responded.
MissWroteThenEmitted ==
  /\ res.req.handler = "getSocialMediaReports"
  /\ ~res.hit
  /\ res.status = 200
  /\ res.steps = <<"lookup", "fetch", "process", "write", "emit", "respond">>
  /\ Len(res.emitted) = 1
  /\ res.key \in DOMAIN cache
  /\ cache[res.key] = jsonArray(res.emitted[1].data)
  /\ Len(res.fetchedData) > 0

\* C16: searchAllUpdates without a search query q (absent or empty) responds
\* 400 at once: no cache lookup, no fetch and no cache write happen in that
\* run and the cache is left as it was, even when it holds entries.
SearchWithoutQueryIsRejected ==
  [][(HandlerRan /\ res'.req.handler = "searchAllUpdates" /\ ~Given(res'.req.q)) =>
       /\ res'.status = 400
       /\ res'.body = [error |-> "Search query is required"]
       /\ res'.steps = <<"respond">>
       /\ ~res'.hit
       /\ ~res'.fetched
       /\ cache' = cache
       /\ sent' = sent
  ]_vars

\* C16 happens: a search without q was rejected while the cache held an
\* entry written by an earlier request.
RejectedSearchWithoutQuery ==
  /\ res.req.handler = "searchAllUpdates"
  /\ ~Given(res.req.q)
  /\ res.status = 400
  /\ cache # <<>>

\* C17: when the cache read, the fetcher, the cache write or the broadcast
\* emit throws in a handler run, the caller receives HTTP 500 with a body
\* holding both an error field and a message field.
FailureAnswers500WithErrorAndMessage ==
  res.thrown # "none" =>
    /\ res.status = 500
    /\ {"error", "message"} \subseteq DOMAIN res.body

(***************************************************************************)
(* Cache keys                                                              *)
(***************************************************************************)

\* A text parameter as the filters compare it: trimmed, ignoring case.
NormalizedText(v) == IF Given(v) THEN toLowerCase(trim(v)) ELSE Absent

\* The parameters of a request after normalization: the sources list parsed
\* and its entries trimmed, category, severity and keywords normalized, the
\* defaults of the handlers left to the handlers.
NormalizedParameters(req) ==
  [handler |-> req.handler, id |-> req.id,
   sources |-> IF req.sources = Absent THEN <<Absent>> ELSE parseSources(req.sources),
   category |-> NormalizedText(req.category),
   severity |-> NormalizedText(req.severity),
   keywords |-> NormalizedText(req.keywords),
   limit |-> req.limit, disaster_type |-> req.disaster_type, q |-> req.q]

\* This run's request and the previous one go to the same handler with
\* parameters identical after normalization.
RepeatsPreviousRequest ==
  /\ HandlerRan
  /\ res.req.handler # "none"
  /\ NormalizedParameters(res'.req) = NormalizedParameters(res.req)

\* C18: two requests to the same handler whose parameters are identical after
\* normalization derive the same cache key, so the second one hits the entry
\* the first one left in the cache.
NormalizedRequestsShareCacheEntry ==
  [][(RepeatsPreviousRequest /\ res.key \in DOMAIN cache /\ res'.thrown # "lookup") =>
       /\ res'.key = res.key
       /\ res'.hit
  ]_vars

(***************************************************************************)
(* Requests in flight together                                             *)
(***************************************************************************)

\* The events the run emitted.
EmitsBy(i) == {n \in 1..Len(runs.emitted) : runs.emitted[n].by = i}

AllRunsDone == \A i \in Runs : runs.pc[i] = "done"

CatalogsAndArgumentsUntouched ==
  mem.calls > 0 =>
    /\ mem.store.mockOfficialUpdates = mockOfficialUpdates
    /\ mem.store.mockSocialMediaData = mockSocialMediaData
    /\ mem.after = mem.before

\* C20 happens: fetchOfficialUpdates returned the mock set itself, the caller
\* passed that array on to a function that built its result from it, and
\* the catalog is as it was.
CatalogPassedOnAndIntact ==
  /\ mem.calls = 2
  /\ mem.passed = "mockOfficialUpdates"
  /\ mem.held = "output"
  /\ Len(mem.store.output) > 0
  /\ mem.store.mockOfficialUpdates = mockOfficialUpdates

(***************************************************************************)
(* What the cache serves                                                   *)
(***************************************************************************)

\* The items an official-updates handler computes for the request when it
\* does not find the key in the cache.
RecomputedItems(req) ==
  LET fetched == fetchOfficialUpdates(parseSources(withDefault(req.sources, s_all)), {})
  IN  CASE req.handler = "getOfficialUpdates" ->
             narrowOfficialUpdates(fetched, req.category, req.severity, req.keywords,
                                   withDefault(req.limit, s_limit50))
        [] req.handler = "getUpdatesByCategory" ->
             narrowCategoryUpdates(fetched, req.category, withDefault(req.limit, s_limit20))
        [] req.handler = "searchAllUpdates" ->
             narrowSearchResults(fetched, req.q, withDefault(req.limit, s_limit30))

\* C21: a response an official-updates handler serves from the cache holds
\* the items that recomputation with the requester's own parameters would
\* produce, so never more items than the requester's limit.
CachedResponseFitsRequest ==
  (res.hit /\ res.req.handler \in OfficialHandlers) =>
    /\ Items(res) = RecomputedItems(res.req)
    /\ IsPositiveInteger(LimitInForce(res.req)) =>
         Len(Items(res)) <= parseDigits(LimitInForce(res.req), 0)

(***************************************************************************)
(* The provider chain's filters                                            *)
(***************************************************************************)

\* The post holds the term, ignoring case, in its text or in a hashtag.
Mentions(post, term) ==
  \/ IsSubstring(toLowerCase(term), toLowerCase(post.post))
  \/ \E i \in 1..Len(post.hashtags) :
       IsSubstring(toLowerCase(term), toLowerCase(post.hashtags[i]))

\* C22: when disasterType is given, every post fetchSocialMediaData returns
\* holds disasterType, ignoring case, in its text or in one of its hashtags,
\* whichever tokens are configured and whichever provider produced the data.
ReturnedPostsMatchDisasterType ==
  (HasReturned("fetchSocialMediaData") /\ Given(call.in.disasterType)) =>
    \A i \in 1..Len(call.out) : Mentions(call.out[i], call.in.disasterType)

(***************************************************************************)
(* The sources of fetchOfficialUpdates                                     *)
(***************************************************************************)

\* The source id under which the records of a source are requested; the
\* catalog's Salvation Army record belongs to none of the four sources.
SourceIdOf(source) ==
  CASE source = "FEMA" -> s_fema
    [] source = "Red Cross" -> s_redcross
    [] source = "NYC Emergency Management" -> s_nyc
    [] source = "National Weather Service" -> s_weather
    [] OTHER -> Null

\* The sources list names a known source id or 'all'.
NamesAKnownSource(sources) ==
  /\ sources # NotAnArray
  /\ \E i \in 1..Len(sources) : sources[i] \in KnownSourceIds \cup {s_all}

\* The mock records the sources list asks for.
RequestedRecords(sources) ==
  {r \in Elements(mockOfficialUpdates) :
     /\ SourceIdOf(r.source) \in KnownSourceIds
     /\ \E i \in 1..Len(sources) : sources[i] \in {s_all, SourceIdOf(r.source)}}

\* C23: for a sources list naming a known source id or 'all',
\* fetchOfficialUpdates returns exactly the mock records of the requested
\* sources, each once, whether an id is repeated, listed next to 'all' or
\* next to an unknown id, and whichever scrapers fail; 'all' gives the 4
\* records of the four sources.
FetchReturnsRequestedSourcesOnce ==
  (HasReturned("fetchOfficialUpdates") /\ NamesAKnownSource(call.in.sources)) =>
    /\ Elements(call.out) = RequestedRecords(call.in.sources)
    /\ Len(call.out) = Cardinality(RequestedRecords(call.in.sources))
    /\ (\E i \in 1..Len(call.in.sources) : call.in.sources[i] = s_all) =>
         Len(call.out) = 4

\* C23 happens: the list named fema next to 'all' and next to itself, and a
\* scraper failed, and each record came back once.
FetchedAllAndFemaOnce ==
  /\ HasReturned("fetchOfficialUpdates")
  /\ call.in.sources = <<s_all, s_fema>>
  /\ s_fema \in call.in.failed
  /\ Len(call.out) = 4
  /\ Cardinality(Elements(call.out)) = 4

(***************************************************************************)
(* The broadcast service                                                   *)
(***************************************************************************)

\* The last operation was this utility or handler.
LastWas(op) == sock.last.op = op

\* The sockets the last operation delivered an event to.
Reached == UNION {sock.last.emitted[i].to : i \in 1..Len(sock.last.emitted)}

\* The connected sockets whose last join_disaster or leave_disaster event for
\* the disaster was a join.
JoinedLast(d) == {s \in sock.connected : sock.joined[s][d] = "join"}

\* C24: after any sequence of join_disaster, leave_disaster and disconnect
\* events, emitDisasterUpdate(d, eventType, data) delivers one event, to
\* exactly the connected sockets whose last join or leave event for d was a
\* join.
DisasterUpdateReachesRoomMembers ==
  (LastWas("emitDisasterUpdate") /\ sock.last.ioSet) =>
    /\ Len(sock.last.emitted) = 1
    /\ sock.last.emitted[1].event = "disaster_updated"
    /\ sock.last.emitted[1].payload.disasterId = sock.last.args[1]
    /\ sock.last.emitted[1].to = JoinedLast(sock.last.args[1])

\* C24 happens: of two connected sockets that joined the disaster's room one
\* left again, and the update reached the other one alone.
UpdateSkippedSocketThatLeft ==
  /\ LastWas("emitDisasterUpdate")
  /\ \E s, t \in sock.connected :
       /\ s # t
       /\ sock.joined[s][sock.last.args[1]] = "join"
       /\ sock.joined[t][sock.last.args[1]] = "leave"
       /\ Reached = {s}

PublishingUtilities == {"emitDisasterUpdate", "emitLocationUpdate", "broadcastAlert", "emitToUser"}

\* C25: before initializeSocket has been called, the publishing utilities and
\* cleanupRooms return without emitting or throwing, getConnectedClients
\* returns 0 and getRoomInfo returns null; once initializeSocket has set the
\* handle it stays set.
UtilitiesAreInertWithoutHandle ==
  /\ []((sock.last.op \in PublishingUtilities \cup {"cleanupRooms"} /\ ~sock.last.ioSet) =>
          /\ sock.last.emitted = <<>>
          /\ ~sock.last.threw
          /\ sock.last.returned.value = Absent
          /\ sock.rooms = <<>>)
  /\ []((LastWas("getConnectedClients") /\ ~sock.last.ioSet) =>
          /\ sock.last.returned = [value |-> 0]
          /\ ~sock.last.threw)
  /\ []((LastWas("getRoomInfo") /\ ~sock.last.ioSet) =>
          /\ sock.last.returned = [value |-> Null]
          /\ ~sock.last.threw)
  /\ [][sock.io # "none" => sock'.io = sock.io]_vars

\* C25 happens: getRoomInfo was called before initializeSocket and returned
\* null.
RoomInfoWithoutHandle ==
  /\ LastWas("getRoomInfo")
  /\ sock.io = "none"
  /\ ~sock.last.ioSet
  /\ sock.last.returned = [value |-> Null]

\* C26: an emergency_alert event received from a client produces one
\* urgent_alert broadcast to all connected clients if and only if its priority
\* equals 'urgent'; for any other priority nothing is emitted to any client.
UrgentAlertOnlyForUrgentPriority ==
  LastWas("emergency_alert") =>
    IF sock.last.args[2] = "urgent"
    THEN /\ Len(sock.last.emitted) = 1
         /\ sock.last.emitted[1].event = "urgent_alert"
         /\ sock.last.emitted[1].to = sock.connected
    ELSE /\ sock.last.emitted = <<>>
         /\ Reached = {}

\* C26 happens: an urgent alert sent by one client reached two connected
\* clients.
UrgentAlertReachedEveryClient ==
  /\ LastWas("emergency_alert")
  /\ sock.last.args[2] = "urgent"
  /\ Cardinality(sock.connected) = 2
  /\ Reached = sock.connected

\* C27: the social_media_updated event emitted by getSocialMediaReports for a
\* disaster reaches only clients that joined the room of that disaster, and
\* emitToUser reaches only the client identified by userId.
UpdatesReachOnlyTheirAudience ==
  /\ LastWas("getSocialMediaReports") => Reached \subseteq JoinedLast(sock.last.args[1])
  /\ LastWas("emitToUser") => Reached \subseteq {sock.last.args[1]}

\* The mock provider supplied the data of the call: it did not throw, and no
\* token-gated provider is configured that did not throw.
MockProviderAnswered ==
  /\ "mock" \notin call.in.failed
  /\ env.twitter => "twitter" \in call.in.failed
  /\ env.bluesky => "bluesky" \in call.in.failed

\* The posts of the mock catalog that the filters of the call keep: some term
\* of keywords is mentioned, and disasterType, when given, is mentioned.
KeptByFilters(keywords, disasterType) ==
  LET Kept(post) ==
        /\ \E i \in 1..Len(Terms(keywords)) : Mentions(post, Terms(keywords)[i])
        /\ Given(disasterType) => Mentions(post, disasterType)
  IN  SelectSeq(mockSocialMediaData, Kept)

TermsKeptSomePosts ==
  /\ HasReturned("fetchSocialMediaData")
  /\ call.in.keywords = q_water_SHELTER
  /\ call.in.disasterType = Absent
  /\ MockProviderAnswered
  /\ Len(call.out) \in 1..(Len(mockSocialMediaData) - 1)

====
